---- MODULE Spec2Model ----
(***************************************************************************)
(* A model of the Gloob interpreter: lexer, parser, scope chain and the    *)
(* tree-walking evaluator.  The evaluator is a big-step recursive function *)
(* in the source (Evaluate dispatching to evaluateXxx); it is modelled by  *)
(* recursive operators of the same names that thread the interpreter's     *)
(* mutable state (scopes, array heap, standard output, fatal error).       *)
(* Numerics are integers here (the source uses float64).  A Go string that *)
(* is program text (source, token literal, identifier, operator, string    *)
(* value) is a sequence of one-character strings; TLA+ strings are used    *)
(* for the enumerations (node types, token types, error kinds).            *)
(***************************************************************************)
EXTENDS Integers, Sequences, FiniteSets, TLC

(***************************************************************************)
(* Bounds of the model.                                                    *)
(***************************************************************************)
\* cap on user-function calls plus loop iterations of one run; a run that
\* reaches it is cut off with err = "STEP_LIMIT" (it did not terminate yet)
MaxSteps == 24
\* largest number of closure calls in the counter programs
MaxCalls == 4
\* range-loop bounds and arguments are drawn from -MaxNum..MaxNum
MaxNum == 3
\* range-loop increments are drawn from -MaxInc..MaxInc
MaxInc == 2

(***************************************************************************)
(* Runtime values (internal/values/values.go).  Every value is a record    *)
(* tagged by the NodeType it reports.                                      *)
(***************************************************************************)
NumericValue(n) == [t |-> "NUMERIC", n |-> n]
BooleanValue(b) == [t |-> "BOOLEAN", b |-> b]
NullValue == [t |-> "NULL"]
StringValue(s) == [t |-> "STRING", s |-> s]
NodeVariableDeclaration(name, value) ==
    [t |-> "VARIABLE_DECLARATION", name |-> name, value |-> value]
FunctionValue(identifier, parameters, body, scope) ==
    [t |-> "FUNCTION_DECLARATION", identifier |-> identifier,
     parameters |-> parameters, body |-> body, scope |-> scope]
BreakValue == [t |-> "BREAK_EXPRESSION"]
ReturnValue(value) == [t |-> "RETURN_VALUE", value |-> value]
\* an array value is a reference into the heap of element sequences
ArrayValue(ref) == [t |-> "ARRAY", ref |-> ref]
\* a native function is identified by its name; an array or string method
\* is bound to the value it was looked up on (recv), a global function to Nil
NativeFunctionValue(name, recv) == [t |-> "NATIVE_FUNCTION", name |-> name, recv |-> recv]
ObjectValue(ref) == [t |-> "OBJECT", ref |-> ref]

(***************************************************************************)
(* AST nodes (parser package, node definitions).                           *)
(***************************************************************************)
\* the Go nil of an optional sub-node
Nil == [t |-> "nil"]
Numeric(n) == [t |-> "NUMERIC", n |-> n]
Boolean(b) == [t |-> "BOOLEAN", b |-> b]
Null == [t |-> "NULL"]
String(s) == [t |-> "STRING", s |-> s]
Identifier(name) == [t |-> "IDENTIFIER", name |-> name]
BinaryExpression(left, operator, right) ==
    [t |-> "BINARY_EXPRESSION", left |-> left, operator |-> operator, right |-> right]
VariableDeclaration(constant, identifier, value) ==
    [t |-> "VARIABLE_DECLARATION", constant |-> constant, identifier |-> identifier, value |-> value]
VariableAssignmentExpression(identifier, value) ==
    [t |-> "VARIABLE_ASSIGNMENT", identifier |-> identifier, value |-> value]
MemberAccess(object, property) ==
    [t |-> "MEMBER_ACCESS", object |-> object, property |-> property]
CallExpression(callee, args) == [t |-> "CALL_EXPRESSION", callee |-> callee, args |-> args]
FunctionDeclaration(identifier, parameters, body) ==
    [t |-> "FUNCTION_DECLARATION", identifier |-> identifier, parameters |-> parameters, body |-> body]
ElseIfClause(condition, body) == [t |-> "ELSE_IF_CLAUSE", condition |-> condition, body |-> body]
IfStatement(condition, body, elseIfs, elseBody) ==
    [t |-> "IF_STATEMENT", condition |-> condition, body |-> body,
     elseIfs |-> elseIfs, elseBody |-> elseBody]
LoopStatement(condition, body, loopVar, from, to, increment, isForEach) ==
    [t |-> "LOOP_STATEMENT", condition |-> condition, body |-> body, loopVar |-> loopVar,
     from |-> from, to |-> to, increment |-> increment, isForEach |-> isForEach]
BreakExpression == [t |-> "BREAK_EXPRESSION"]
ReturnStatement(value) == [t |-> "RETURN_STATEMENT", value |-> value]
ImportStatement(path) == [t |-> "IMPORT_STATEMENT", path |-> path]
Array(elements) == [t |-> "ARRAY", elements |-> elements]
Property(key, value) == [t |-> "PROPERTY", key |-> key, value |-> value]
Object(properties) == [t |-> "OBJECT", properties |-> properties]
ArrayIndex(arrayExpression, index) ==
    [t |-> "ARRAY_INDEX", arrayExpression |-> arrayExpression, index |-> index]

(***************************************************************************)
(* Interpreter state threaded through the evaluator:                       *)
(*   scopes  sequence of Scope records, a scope is named by its index      *)
(*   arrays  the ArrayValue objects: each holds its Elements slice header  *)
(*           [buf, len]; an array is named by its index                    *)
(*   bufs    the backing arrays of the slices (their length is the cap)    *)
(*   objects the Properties maps of the ObjectValues, named by index       *)
(*   out     the argument lists printed so far (standard output)           *)
(*   err     "" while running, otherwise the fatal error that ended it     *)
(*   steps   calls and loop iterations made so far                         *)
(***************************************************************************)
EmptyMap == [x \in {} |-> NullValue]
R(v, st) == [v |-> v, st |-> st]
\* errors.RuntimeError / fmt.Printf + os.Exit(1): the first error is fatal
Fail(st, e) == IF st.err = "" THEN [st EXCEPT !.err = e] ELSE st
Tick(st) == IF st.steps >= MaxSteps THEN Fail(st, "STEP_LIMIT")
            ELSE [st EXCEPT !.steps = @ + 1]

(***************************************************************************)
(* Scope (package scope).                                                  *)
(***************************************************************************)
\* (NewScope_Shared: the scope starts with the bindings of the latest scope
\* that has the same parent, as if the calls of a function shared one scope)
NewScope_Shared(st, parent) ==
    LET same == {k \in 1..Len(st.scopes) : st.scopes[k].parent = parent}
    IN [st EXCEPT !.scopes = Append(@,
            IF same = {} THEN [parent |-> parent, variables |-> EmptyMap, constants |-> {}]
            ELSE st.scopes[CHOOSE k \in same : \A j \in same : j <= k])]

NewScope(st, parent) ==
    [st EXCEPT !.scopes = Append(@, [parent |-> parent, variables |-> EmptyMap, constants |-> {}])]

\* (Declare_Overwrite: Declare without the test for an existing name)
Declare_Overwrite(st, s, name, value, isConstant) ==
    [st EXCEPT !.scopes[s].constants = IF isConstant THEN @ \cup {name} ELSE @ \ {name},
               !.scopes[s].variables = (name :> value) @@ @]

Declare(st, s, name, value, isConstant) ==
    IF name \in DOMAIN st.scopes[s].variables
    THEN Fail(st, "VariableAlreadyDeclared")
    ELSE [st EXCEPT !.scopes[s].constants = IF isConstant THEN @ \cup {name} ELSE @,
                    !.scopes[s].variables = (name :> value) @@ @]

RECURSIVE Resolve(_, _, _)
Resolve(st, s, name) ==
    IF name \in DOMAIN st.scopes[s].variables THEN s
    ELSE IF st.scopes[s].parent # 0 THEN Resolve(st, st.scopes[s].parent, name)
    ELSE 0

\* Assign: the write goes to the scope that Resolve finds
\* (Assign_Local: the same checks, the write going to the current scope)
Assign_Local(st, s, name, value) ==
    LET scope == Resolve(st, s, name) IN
    IF scope = 0 THEN Fail(st, "VariableNotFound")
    ELSE IF name \in st.scopes[scope].constants THEN Fail(st, "ConstantCannotBeAssigned")
    ELSE [st EXCEPT !.scopes[s].variables = (name :> value) @@ @]

\* (Assign_IgnoreConstant: the write made without the test for a constant)
Assign_IgnoreConstant(st, s, name, value) ==
    LET scope == Resolve(st, s, name) IN
    IF scope = 0 THEN Fail(st, "VariableNotFound")
    ELSE [st EXCEPT !.scopes[scope].variables = (name :> value) @@ @]

Assign(st, s, name, value) ==
    LET scope == Resolve(st, s, name) IN
    IF scope = 0 THEN Fail(st, "VariableNotFound")
    ELSE IF name \in st.scopes[scope].constants THEN Fail(st, "ConstantCannotBeAssigned")
    ELSE [st EXCEPT !.scopes[scope].variables = (name :> value) @@ @]

\* Get: the value, or the error; a Go nil is never stored by the evaluator
\* Get: the stored value itself, for an array the pointer to the one ArrayValue
\* (Get_Copy: an array is handed out as a copy of its elements)
Get_Copy(st, s, name) ==
    LET scope == Resolve(st, s, name) IN
    IF scope = 0 THEN R(NullValue, Fail(st, "VariableNotFound"))
    ELSE IF st.scopes[scope].variables[name].t = "ARRAY"
    THEN LET a == st.arrays[st.scopes[scope].variables[name].ref]
         IN R(ArrayValue(Len(st.arrays) + 1),
              [st EXCEPT !.bufs = Append(@, SubSeq(st.bufs[a.buf], 1, a.len)),
                         !.arrays = Append(@, [buf |-> Len(st.bufs) + 1, len |-> a.len])])
    ELSE R(st.scopes[scope].variables[name], st)

Get(st, s, name) ==
    LET scope == Resolve(st, s, name) IN
    IF scope = 0 THEN R(NullValue, Fail(st, "VariableNotFound"))
    ELSE R(st.scopes[scope].variables[name], st)

\* GetVariables returns the scope's own map; the loops write into it directly
SetVariable(st, s, name, value) ==
    [st EXCEPT !.scopes[s].variables = (name :> value) @@ @]

(***************************************************************************)
(* Go slices behind ArrayValue.Elements.                                   *)
(***************************************************************************)
Elements(st, ref) == SubSeq(st.bufs[st.arrays[ref].buf], 1, st.arrays[ref].len)

\* &values.ArrayValue{Elements: elements} with a fresh backing array
NewArray(st, elements) ==
    [st EXCEPT !.bufs = Append(@, elements),
               !.arrays = Append(@, [buf |-> Len(st.bufs) + 1, len |-> Len(elements)])]

\* append(array.Elements, v): in place while len < cap, otherwise the elements
\* move to a new backing array of doubled capacity (Go's growth for small slices)
GoAppend(st, ref, v) ==
    LET a == st.arrays[ref]
        cap == Len(st.bufs[a.buf])
        newcap == IF cap = 0 THEN 1 ELSE 2 * cap
        grown == [i \in 1..newcap |->
                    IF i <= a.len THEN st.bufs[a.buf][i] ELSE IF i = a.len + 1 THEN v ELSE Nil]
    IN IF a.len < cap
       THEN [st EXCEPT !.bufs[a.buf][a.len + 1] = v, !.arrays[ref].len = a.len + 1]
       ELSE [st EXCEPT !.bufs = Append(@, grown),
                       !.arrays[ref] = [buf |-> Len(st.bufs) + 1, len |-> a.len + 1]]

\* append(array.Elements[:keep], values...): in place while the result fits
\* the capacity, otherwise in a new backing array (of doubled capacity, or of
\* the needed length when that is more) that receives the first keep
\* elements and the values
GoAppendSlice(st, ref, keep, values) ==
    LET a == st.arrays[ref]
        cap == Len(st.bufs[a.buf])
        n == keep + Len(values)
        newcap == IF 2 * cap >= n THEN 2 * cap ELSE n
        placed(old, size) == [i \in 1..size |-> IF i <= keep THEN old[i]
                                                ELSE IF i <= n THEN values[i - keep]
                                                ELSE IF i <= Len(old) THEN old[i] ELSE Nil]
    IN IF n <= cap
       THEN [st EXCEPT !.bufs[a.buf] = placed(@, cap), !.arrays[ref].len = n]
       ELSE [st EXCEPT !.bufs = Append(@, placed(SubSeq(st.bufs[a.buf], 1, keep), newcap)),
                       !.arrays[ref] = [buf |-> Len(st.bufs) + 1, len |-> n]]

(***************************************************************************)
(* Evaluator (package interpreter).                                        *)
(***************************************************************************)
isTruthy(value) ==
    CASE value.t = "BOOLEAN" -> value.b
      [] value.t = "NUMERIC" -> value.n # 0
      [] value.t = "STRING" -> value.s # <<>>
      [] value.t = "NULL" -> FALSE
      [] OTHER -> TRUE

isComparisonOperator(operator) ==
    operator \in {<<"=", "=">>, <<"!", "=">>, <<">">>, <<">", "=">>, <<"<">>, <<"<", "=">>, <<"&", "&">>, <<"|", "|">>}

evaluateLogicalExpression(operator, left, right, st) ==
    LET leftBool == isTruthy(left)
        rightBool == isTruthy(right)
    IN CASE operator = <<"&", "&">> -> R(BooleanValue(leftBool /\ rightBool), st)
         [] operator = <<"|", "|">> -> R(BooleanValue(leftBool \/ rightBool), st)
         [] OTHER -> R(NullValue, Fail(st, "UnknownLogicalOperator"))

\* only equality of strings is modelled; the ordering operators compare bytes
evaluateStringComparison(operator, left, right, st) ==
    CASE operator = <<"=", "=">> -> R(BooleanValue(left.s = right.s), st)
      [] operator = <<"!", "=">> -> R(BooleanValue(left.s # right.s), st)
      [] OTHER -> R(NullValue, Fail(st, "UNMODELLED_STRING_ORDER"))

evaluateNumericComparison(operator, left, right, st) ==
    CASE operator = <<"=", "=">> -> R(BooleanValue(left.n = right.n), st)
      [] operator = <<"!", "=">> -> R(BooleanValue(left.n # right.n), st)
      [] operator = <<">">> -> R(BooleanValue(left.n > right.n), st)
      [] operator = <<">", "=">> -> R(BooleanValue(left.n >= right.n), st)
      [] operator = <<"<">> -> R(BooleanValue(left.n < right.n), st)
      [] operator = <<"<", "=">> -> R(BooleanValue(left.n <= right.n), st)
      [] OTHER -> R(NullValue, Fail(st, "UnknownComparisonOperator"))

evaluateBooleanComparison(operator, left, right, st) ==
    CASE operator = <<"=", "=">> -> R(BooleanValue(left.b = right.b), st)
      [] operator = <<"!", "=">> -> R(BooleanValue(left.b # right.b), st)
      [] operator = <<">">> -> R(BooleanValue(left.b /\ ~right.b), st)
      [] operator = <<">", "=">> -> R(BooleanValue(left.b \/ ~right.b), st)
      [] operator = <<"<">> -> R(BooleanValue(~left.b /\ right.b), st)
      [] operator = <<"<", "=">> -> R(BooleanValue(~left.b \/ right.b), st)
      [] OTHER -> R(NullValue, Fail(st, "UnknownComparisonOperator"))

evaluateNullComparison(operator, st) ==
    CASE operator = <<"=", "=">> -> R(BooleanValue(TRUE), st)
      [] operator = <<"!", "=">> -> R(BooleanValue(FALSE), st)
      [] OTHER -> R(NullValue, Fail(st, "CannotUseOperatorWithNull"))

evaluateComparisonExpression(operator, left, right, st) ==
    IF operator \in {<<"&", "&">>, <<"|", "|">>} THEN evaluateLogicalExpression(operator, left, right, st)
    ELSE IF left.t = "STRING" /\ right.t = "STRING"
         THEN evaluateStringComparison(operator, left, right, st)
    ELSE IF left.t = "NUMERIC" /\ right.t = "NUMERIC"
         THEN evaluateNumericComparison(operator, left, right, st)
    ELSE IF left.t = "BOOLEAN" /\ right.t = "BOOLEAN"
         THEN evaluateBooleanComparison(operator, left, right, st)
    ELSE IF left.t = "NULL" /\ right.t = "NULL" THEN evaluateNullComparison(operator, st)
    ELSE IF operator = <<"=", "=">> THEN R(BooleanValue(FALSE), st)
    ELSE IF operator = <<"!", "=">> THEN R(BooleanValue(TRUE), st)
    ELSE R(NullValue, Fail(st, "CannotCompareTypes"))

Abs(n) == IF n < 0 THEN -n ELSE n
\* Go's integer remainder truncates toward zero
GoRem(a, b) == IF a < 0 THEN -(Abs(a) % Abs(b)) ELSE Abs(a) % Abs(b)

\* "/" is float division in the source; the integer model keeps exact
\* quotients and cuts a run off at a quotient that is not an integer.
\* int(x) % int(0) is a Go run-time panic, not a reported error.
evaluateNumericBinaryExpression(operator, left, right, st) ==
    CASE operator = <<"+">> -> R(NumericValue(left.n + right.n), st)
      [] operator = <<"-">> -> R(NumericValue(left.n - right.n), st)
      [] operator = <<"*">> -> R(NumericValue(left.n * right.n), st)
      [] operator = <<"/">> ->
            IF right.n = 0 THEN R(NullValue, Fail(st, "DivisionByZero"))
            ELSE IF GoRem(left.n, right.n) # 0 THEN R(NullValue, Fail(st, "UNMODELLED_FRACTION"))
            ELSE R(NumericValue((Abs(left.n) \div Abs(right.n)) *
                                (IF (left.n < 0) = (right.n < 0) THEN 1 ELSE -1)), st)
      [] operator = <<"%">> ->
            IF right.n = 0 THEN R(NullValue, Fail(st, "GO_PANIC_integer_divide_by_zero"))
            ELSE R(NumericValue(GoRem(left.n, right.n)), st)
      [] OTHER -> R(NullValue, Fail(st, "UnknownOperator"))

(***************************************************************************)
(* Go's strings and path/filepath functions the program calls.             *)
(***************************************************************************)
HasSuffix(s, suffix) ==
    Len(s) >= Len(suffix) /\ SubSeq(s, Len(s) - Len(suffix) + 1, Len(s)) = suffix

\* strings.Index: the offset of the first occurrence of substr in s, or -1
StringsIndex(s, substr) ==
    LET hits == {i \in 0..(Len(s) - Len(substr)) : SubSeq(s, i + 1, i + Len(substr)) = substr}
    IN IF hits = {} THEN -1 ELSE CHOOSE i \in hits : \A j \in hits : i <= j

\* strings.Split: an empty separator explodes s into its characters; otherwise
\* s is cut at the occurrences of sep found from left to right, which gives
\* one piece more than occurrences (start: where the piece begins, i: where
\* the search is)
RECURSIVE splitFrom(_, _, _, _)
splitFrom(s, sep, start, i) ==
    IF i + Len(sep) > Len(s) THEN <<SubSeq(s, start + 1, Len(s))>>
    ELSE IF SubSeq(s, i + 1, i + Len(sep)) = sep
         THEN <<SubSeq(s, start + 1, i)>> \o splitFrom(s, sep, i + Len(sep), i + Len(sep))
    ELSE splitFrom(s, sep, start, i + 1)
StringsSplit(s, sep) ==
    IF sep = <<>> THEN [i \in 1..Len(s) |-> <<s[i]>>] ELSE splitFrom(s, sep, 0, 0)

IsAbs(path) == path # <<>> /\ path[1] = "/"

\* the offset of the last slash of path, 0 when it has none
lastSlash(path) ==
    LET slashes == {i \in 1..Len(path) : path[i] = "/"}
    IN IF slashes = {} THEN 0 ELSE CHOOSE i \in slashes : \A j \in slashes : j <= i

\* filepath.Clean goes through the elements between the slashes and builds
\* the cleaned path: empty elements and "." are dropped, ".." takes back the
\* element before it (nothing at the root; at the start of a relative path
\* it is kept); an empty result is "."
RECURSIVE cleanElements(_, _, _)
cleanElements(elements, kept, rooted) ==
    IF elements = <<>>
    THEN IF rooted THEN <<"/">> \o kept ELSE IF kept = <<>> THEN <<".">> ELSE kept
    ELSE IF Head(elements) \in {<<>>, <<".">>} THEN cleanElements(Tail(elements), kept, rooted)
    ELSE IF Head(elements) # <<".", ".">>
         THEN cleanElements(Tail(elements),
                            IF kept = <<>> THEN Head(elements)
                            ELSE kept \o <<"/">> \o Head(elements), rooted)
    ELSE IF kept # <<>> /\ SubSeq(kept, lastSlash(kept) + 1, Len(kept)) # <<".", ".">>
         THEN cleanElements(Tail(elements), SubSeq(kept, 1, lastSlash(kept) - 1), rooted)
    ELSE IF rooted THEN cleanElements(Tail(elements), kept, rooted)
    ELSE cleanElements(Tail(elements),
                       IF kept = <<>> THEN <<".", ".">> ELSE kept \o <<"/", ".", ".">>, rooted)

Clean(path) == cleanElements(StringsSplit(path, <<"/">>), <<>>, IsAbs(path))

\* filepath.Join of a directory and a path
Join(dir, path) == IF dir = <<>> THEN Clean(path) ELSE Clean(dir \o <<"/">> \o path)

\* filepath.Dir: the path up to its last slash, cleaned
Dir(path) == Clean(SubSeq(path, 1, lastSlash(path)))

\* the working directory of the process
Cwd == <<"/">>
\* filepath.Abs
filepathAbs(path) == IF IsAbs(path) THEN Clean(path) ELSE Join(Cwd, path)

evaluateBreakExpression(st) == R(BreakValue, st)

\* PrintFunction / PrintlnFunction: both write the arguments and a newline
PrintlnFunction(args, st) == R(NullValue, [st EXCEPT !.out = Append(@, args)])

(***************************************************************************)
(* Go strings are sequences of bytes holding UTF-8.  A byte below 0x80 is  *)
(* written as its ASCII character, a byte from 0x80 on by its value in     *)
(* hexadecimal; a character of the source beyond ASCII is written by its   *)
(* code point.  Only the bytes and characters listed here occur.           *)
(***************************************************************************)
HighByteCode ==
    ("0x82" :> 130) @@ ("0x83" :> 131) @@ ("0xA9" :> 169) @@ ("0xC2" :> 194) @@ ("0xC3" :> 195)
RuneCode == ("U+00E9" :> 233)
ByteName(n) == CHOOSE b \in DOMAIN HighByteCode : HighByteCode[b] = n
\* the UTF-8 encoding of a code point from 0x80 to 0xFF: 110000xx 10xxxxxx
Utf8(code) == <<ByteName(192 + (code \div 64)), ByteName(128 + (code % 64))>>
\* string(r) for a rune r and string(b) for a byte b: the UTF-8 encoding of
\* the code point r, and of the code point whose number is b
RuneToString(ch) == IF ch \in DOMAIN RuneCode THEN Utf8(RuneCode[ch]) ELSE <<ch>>
ByteToString(b) == IF b \in DOMAIN HighByteCode THEN Utf8(HighByteCode[b]) ELSE <<b>>
\* "literal += string(chars[0])" for the characters from i on
RECURSIVE stringOfRunes(_, _, _)
stringOfRunes(runes, i, literal) ==
    IF i > Len(runes) THEN literal
    ELSE stringOfRunes(runes, i + 1, literal \o RuneToString(runes[i]))

\* fmt's %v of a value (its String method); numbers print with %g
DigitChars == <<"0", "1", "2", "3", "4", "5", "6", "7", "8", "9">>
RECURSIVE NatToChars(_)
NatToChars(n) == IF n < 10 THEN <<DigitChars[n + 1]>>
                 ELSE NatToChars(n \div 10) \o <<DigitChars[(n % 10) + 1]>>
Display(value) ==
    CASE value.t = "STRING" -> value.s
      [] value.t = "NUMERIC" -> IF value.n < 0 THEN <<"-">> \o NatToChars(-value.n)
                                ELSE NatToChars(value.n)
      [] value.t = "BOOLEAN" -> IF value.b THEN <<"t", "r", "u", "e">>
                                ELSE <<"f", "a", "l", "s", "e">>
      [] value.t = "NULL" -> <<"n", "u", "l", "l">>
      [] value.t = "BREAK_EXPRESSION" -> <<"b", "r", "e", "a", "k">>
      [] OTHER -> <<"?">>

\* "result += separator + fmt.Sprint(array.Elements[i])" for i from 1 on
RECURSIVE joinFrom(_, _, _, _)
joinFrom(elements, separator, i, result) ==
    IF i > Len(elements) THEN result
    ELSE joinFrom(elements, separator, i + 1, result \o separator \o Display(elements[i]))

\* "index = index - 1": the 1-based index of the language as a Go index
\* (toZeroBased_Same: the index taken as it is)
toZeroBased_Same(index) == index
toZeroBased(index) == index - 1

ArrayPushMethod(array, args, st) ==
    IF Len(args) # 1 THEN R(NullValue, Fail(st, "push_expects_1_argument"))
    ELSE R(ArrayValue(array), GoAppend(st, array, args[1]))

\* (ArrayPopMethod_Keep: the last element returned and left in the array)
ArrayPopMethod_Keep(array, args, st) ==
    IF st.arrays[array].len = 0 THEN R(NullValue, Fail(st, "CannotPopFromEmptyArray"))
    ELSE R(st.bufs[st.arrays[array].buf][st.arrays[array].len], st)

ArrayPopMethod(array, args, st) ==
    IF st.arrays[array].len = 0 THEN R(NullValue, Fail(st, "CannotPopFromEmptyArray"))
    ELSE LET lastIndex == st.arrays[array].len
         IN R(st.bufs[st.arrays[array].buf][lastIndex],
              [st EXCEPT !.arrays[array].len = lastIndex - 1])

ArrayLenMethod(array, args, st) == R(NumericValue(st.arrays[array].len), st)

\* "array.Elements = append(array.Elements[:index], array.Elements[index+1:]...)"
ArrayRemoveMethod(array, args, st) ==
    IF Len(args) # 1 THEN R(NullValue, Fail(st, "remove_expects_1_argument"))
    ELSE IF args[1].t # "NUMERIC" THEN R(NullValue, Fail(st, "remove_expects_numeric_index"))
    ELSE LET index == toZeroBased(args[1].n)
             n == st.arrays[array].len
         IN IF index < 0 \/ index >= n THEN R(NullValue, Fail(st, "ArrayIndexOutOfBounds"))
            ELSE R(ArrayValue(array),
                   GoAppendSlice(st, array, index, SubSeq(Elements(st, array), index + 2, n)))

\* "append(array.Elements[:index], append([]RuntimeValue{args[1]}, array.Elements[index:]...)...)"
ArrayInsertMethod(array, args, st) ==
    IF Len(args) # 2 THEN R(NullValue, Fail(st, "insert_expects_2_arguments"))
    ELSE IF args[1].t # "NUMERIC" THEN R(NullValue, Fail(st, "insert_expects_numeric_index"))
    ELSE LET index == toZeroBased(args[1].n)
             n == st.arrays[array].len
         IN IF index < 0 \/ index > n THEN R(NullValue, Fail(st, "ArrayIndexOutOfBounds"))
            ELSE R(ArrayValue(array),
                   GoAppendSlice(st, array, index,
                                 <<args[2]>> \o SubSeq(Elements(st, array), index + 1, n)))

ArrayJoinMethod(array, args, st) ==
    IF Len(args) # 1 THEN R(NullValue, Fail(st, "join_expects_1_argument"))
    ELSE IF args[1].t # "STRING" THEN R(NullValue, Fail(st, "join_expects_string_separator"))
    ELSE IF st.arrays[array].len = 0 THEN R(StringValue(<<>>), st)
    ELSE R(StringValue(joinFrom(Elements(st, array), args[1].s, 2,
                                Display(Elements(st, array)[1]))), st)

\* the elements of the slice are swapped in place
ArrayReverseMethod(array, args, st) ==
    LET a == st.arrays[array]
    IN R(ArrayValue(array),
         [st EXCEPT !.bufs[a.buf] = [k \in 1..Len(@) |-> IF k <= a.len THEN @[a.len + 1 - k]
                                                         ELSE @[k]]])

GetArrayMethod(array, methodName, st) ==
    IF methodName \in {<<"p", "u", "s", "h">>, <<"p", "o", "p">>, <<"l", "e", "n">>,
                       <<"r", "e", "m", "o", "v", "e">>, <<"i", "n", "s", "e", "r", "t">>,
                       <<"i", "n", "d", "e", "x", "O", "f">>,
                       <<"c", "o", "n", "t", "a", "i", "n", "s">>, <<"j", "o", "i", "n">>,
                       <<"r", "e", "v", "e", "r", "s", "e">>}
    THEN R(NativeFunctionValue(methodName, ArrayValue(array)), st)
    ELSE R(NullValue, Fail(st, "UnknownArrayMethod"))

StringLenMethod(str, args, st) == R(NumericValue(Len(str.s)), st)

StringSplitMethod(str, args, st) ==
    IF Len(args) # 1 THEN R(NullValue, Fail(st, "split_expects_1_argument"))
    ELSE IF args[1].t # "STRING" THEN R(NullValue, Fail(st, "split_expects_string_separator"))
    ELSE LET parts == StringsSplit(str.s, args[1].s)
         IN R(ArrayValue(Len(st.arrays) + 1),
              NewArray(st, [i \in 1..Len(parts) |-> StringValue(parts[i])]))

GetStringMethod(str, methodName, st) ==
    IF methodName \in {<<"l", "e", "n">>, <<"u", "p", "p", "e", "r">>, <<"l", "o", "w", "e", "r">>,
                       <<"t", "r", "i", "m">>, <<"c", "o", "n", "t", "a", "i", "n", "s">>,
                       <<"s", "p", "l", "i", "t">>, <<"r", "e", "p", "l", "a", "c", "e">>,
                       <<"i", "n", "d", "e", "x", "O", "f">>}
    THEN R(NativeFunctionValue(methodName, str), st)
    ELSE R(NullValue, Fail(st, "UnknownStringMethod"))

\* nativeFunc.Expression(args, s): the closure of an array or string method
\* over its receiver, or a global function; the methods and functions not
\* modelled cut the run off
\* the global function len
LenFunction(args, st) ==
    IF Len(args) # 1 THEN R(NullValue, Fail(st, "len_expects_1_argument"))
    ELSE IF args[1].t = "STRING" THEN R(NumericValue(Len(args[1].s)), st)
    ELSE IF args[1].t = "ARRAY" THEN R(NumericValue(st.arrays[args[1].ref].len), st)
    ELSE R(NullValue, Fail(st, "len_expects_string_or_array"))

CallNative(fn, args, st) ==
    CASE fn.recv.t = "ARRAY" ->
            (CASE fn.name = <<"p", "u", "s", "h">> -> ArrayPushMethod(fn.recv.ref, args, st)
               [] fn.name = <<"p", "o", "p">> -> ArrayPopMethod(fn.recv.ref, args, st)
               [] fn.name = <<"l", "e", "n">> -> ArrayLenMethod(fn.recv.ref, args, st)
               [] fn.name = <<"r", "e", "m", "o", "v", "e">> -> ArrayRemoveMethod(fn.recv.ref, args, st)
               [] fn.name = <<"i", "n", "s", "e", "r", "t">> -> ArrayInsertMethod(fn.recv.ref, args, st)
               [] fn.name = <<"j", "o", "i", "n">> -> ArrayJoinMethod(fn.recv.ref, args, st)
               [] fn.name = <<"r", "e", "v", "e", "r", "s", "e">> -> ArrayReverseMethod(fn.recv.ref, args, st)
               [] OTHER -> R(NullValue, Fail(st, "UNMODELLED_NATIVE")))
      [] fn.recv.t = "STRING" ->
            (CASE fn.name = <<"l", "e", "n">> -> StringLenMethod(fn.recv, args, st)
               [] fn.name = <<"s", "p", "l", "i", "t">> -> StringSplitMethod(fn.recv, args, st)
               [] OTHER -> R(NullValue, Fail(st, "UNMODELLED_NATIVE")))
      [] OTHER ->
            IF fn.name \in {<<"p", "r", "i", "n", "t">>, <<"p", "r", "i", "n", "t", "l", "n">>}
            THEN PrintlnFunction(args, st)
            ELSE IF fn.name = <<"l", "e", "n">> THEN LenFunction(args, st)
            ELSE R(NullValue, Fail(st, "UNMODELLED_NATIVE"))

RECURSIVE Repeat(_, _)
Repeat(s, n) == IF n <= 0 THEN <<>> ELSE s \o Repeat(s, n - 1)

\* strings.Repeat panics on a negative count
evaluateStringMultiplication(left, right, st) ==
    IF right.n < 0 THEN R(NullValue, Fail(st, "GO_PANIC_negative_Repeat_count"))
    ELSE R(StringValue(Repeat(left.s, right.n)), st)

evaluateStringBinaryExpression(operator, left, right, st) ==
    IF operator = <<"+">> THEN R(StringValue(Display(left) \o Display(right)), st)
    ELSE R(NullValue, Fail(st, "UnknownOperatorWithString"))

\* the scope a call's scope is parented to: the function's captured scope
\* (funScopeParent_Caller: the caller's scope, as dynamic scoping would have it)
funScopeParent_Caller(fun, s) == s
funScopeParent(fun, s) == fun.scope

\* the value of a call whose body ran to its end: the last statement's value
\* (implicitReturn_Null: Null, as without implicit returns)
implicitReturn_Null(result) == NullValue
implicitReturn(result) == result

\* the range loop's termination test, made before every iteration
\* (rangeDone_Exclusive: the same test with `to` excluded)
rangeDone_Exclusive(goingForward, current, to) ==
    (goingForward /\ current >= to) \/ (~goingForward /\ current <= to)
rangeDone(goingForward, current, to) ==
    (goingForward /\ current > to) \/ (~goingForward /\ current < to)

RECURSIVE declareParameters(_, _, _, _, _)
declareParameters(st, funScope, parameters, args, i) ==
    IF i > Len(parameters) THEN st
    ELSE declareParameters(Declare(st, funScope, parameters[i], args[i], FALSE),
                           funScope, parameters, args, i + 1)

RECURSIVE Evaluate(_, _, _)
RECURSIVE evalList(_, _, _, _, _)
RECURSIVE evalProperties(_, _, _, _, _)
RECURSIVE runBlock(_, _, _, _, _)
RECURSIVE callBody(_, _, _, _, _)
RECURSIVE loopBody(_, _, _, _, _)
RECURSIVE elseIfs(_, _, _, _)
RECURSIVE infiniteLoop(_, _, _)
RECURSIVE conditionLoop(_, _, _, _)
RECURSIVE rangeLoop(_, _, _, _, _, _, _, _)
RECURSIVE forEachLoop(_, _, _, _, _, _)

\* "for i, x := range nodes { vals[i] = Evaluate(x, s) }"
evalList(nodes, i, s, st, acc) ==
    IF i > Len(nodes) THEN R(acc, st)
    ELSE LET r == Evaluate(nodes[i], s, st)
         IN evalList(nodes, i + 1, s, r.st, Append(acc, r.v))

\* evaluateBinaryExpression: "left := Evaluate(node.Left, s)" and then
\* "right := Evaluate(node.Right, s)", whatever the operator
\* (evaluateBinaryExpression_ShortCircuit: the right operand of && and || is
\* evaluated only when the left one does not decide the result)
evaluateBinaryExpression_ShortCircuit(node, s, st) ==
    LET l == Evaluate(node.left, s, st)
        decided == \/ node.operator = <<"&", "&">> /\ ~isTruthy(l.v)
                   \/ node.operator = <<"|", "|">> /\ isTruthy(l.v)
        r == IF l.st.err = "" /\ decided THEN l ELSE Evaluate(node.right, s, l.st)
        left == l.v
        right == r.v
    IN IF r.st.err # "" THEN R(NullValue, r.st)
       ELSE IF isComparisonOperator(node.operator)
            THEN evaluateComparisonExpression(node.operator, left, right, r.st)
       ELSE IF left.t = "STRING" /\ node.operator = <<"*">> /\ right.t = "NUMERIC"
            THEN evaluateStringMultiplication(left, right, r.st)
       ELSE IF left.t = "STRING" \/ right.t = "STRING"
            THEN evaluateStringBinaryExpression(node.operator, left, right, r.st)
       ELSE IF left.t # "NUMERIC" \/ right.t # "NUMERIC"
            THEN R(NullValue, Fail(r.st, "InvalidOperandTypes"))
       ELSE evaluateNumericBinaryExpression(node.operator, left, right, r.st)

evaluateBinaryExpression(node, s, st) ==
    LET l == Evaluate(node.left, s, st)
        r == Evaluate(node.right, s, l.st)
        left == l.v
        right == r.v
    IN IF r.st.err # "" THEN R(NullValue, r.st)
       ELSE IF isComparisonOperator(node.operator)
            THEN evaluateComparisonExpression(node.operator, left, right, r.st)
       ELSE IF left.t = "STRING" /\ node.operator = <<"*">> /\ right.t = "NUMERIC"
            THEN evaluateStringMultiplication(left, right, r.st)
       ELSE IF left.t = "STRING" \/ right.t = "STRING"
            THEN evaluateStringBinaryExpression(node.operator, left, right, r.st)
       ELSE IF left.t # "NUMERIC" \/ right.t # "NUMERIC"
            THEN R(NullValue, Fail(r.st, "InvalidOperandTypes"))
       ELSE evaluateNumericBinaryExpression(node.operator, left, right, r.st)

evaluateIdentifier(node, s, st) == Get(st, s, node.name)

\* (evaluateVariableDeclaration_Rebind: the name bound without Scope.Declare,
\* so that a second declaration replaces the first)
evaluateVariableDeclaration_Rebind(node, isConstant, s, st) ==
    LET r == IF node.value.t # "nil" THEN Evaluate(node.value, s, st) ELSE R(NullValue, st)
    IN IF r.st.err # "" THEN R(NullValue, r.st)
       ELSE R(NodeVariableDeclaration(node.identifier, r.v),
              SetVariable(r.st, s, node.identifier, r.v))

evaluateVariableDeclaration(node, isConstant, s, st) ==
    LET r == IF node.value.t # "nil" THEN Evaluate(node.value, s, st) ELSE R(NullValue, st)
    IN IF r.st.err # "" THEN R(NullValue, r.st)
       ELSE R(NodeVariableDeclaration(node.identifier, r.v),
              Declare(r.st, s, node.identifier, r.v, isConstant))

evaluateMemberAccessAssignment(node, value, s, st) ==
    LET o == Evaluate(node.object, s, st)
    IN IF o.st.err # "" THEN R(NullValue, o.st)
       ELSE IF o.v.t # "OBJECT" THEN R(NullValue, Fail(o.st, "CannotAssignProperty"))
       ELSE LET a == Evaluate(value, s, o.st)
            IN IF a.st.err # "" THEN R(NullValue, a.st)
               ELSE R(a.v, [a.st EXCEPT !.objects[o.v.ref] = (node.property :> a.v) @@ @])

\* the bounds are checked before the assigned expression is evaluated; the
\* write array.Elements[index] then indexes the slice as it is afterwards
evaluateArrayIndexAssignment(node, value, s, st) ==
    LET arr == Evaluate(node.arrayExpression, s, st)
    IN IF arr.st.err # "" THEN R(NullValue, arr.st)
       ELSE IF arr.v.t # "ARRAY" THEN R(NullValue, Fail(arr.st, "CannotIndexNonArray"))
       ELSE LET ix == Evaluate(node.index, s, arr.st)
            IN IF ix.st.err # "" THEN R(NullValue, ix.st)
               ELSE IF ix.v.t # "NUMERIC" THEN R(NullValue, Fail(ix.st, "IndexMustBeNumeric"))
               ELSE LET array == arr.v.ref
                        index == toZeroBased(ix.v.n)
                    IN IF index < 0 \/ index >= ix.st.arrays[array].len
                       THEN R(NullValue, Fail(ix.st, "ArrayIndexOutOfBounds"))
                       ELSE LET a == Evaluate(value, s, ix.st)
                            IN IF a.st.err # "" THEN R(NullValue, a.st)
                               ELSE IF index >= a.st.arrays[array].len
                               THEN R(NullValue, Fail(a.st, "GO_PANIC_index_out_of_range"))
                               ELSE R(a.v, [a.st EXCEPT
                                        !.bufs[a.st.arrays[array].buf][index + 1] = a.v])

evaluateVariableAssignment(node, s, st) ==
    IF node.identifier.t = "IDENTIFIER"
    THEN LET r == Evaluate(node.value, s, st)
         IN IF r.st.err # "" THEN R(NullValue, r.st)
            ELSE R(r.v, Assign(r.st, s, node.identifier.name, r.v))
    ELSE IF node.identifier.t = "MEMBER_ACCESS"
    THEN evaluateMemberAccessAssignment(node.identifier, node.value, s, st)
    ELSE IF node.identifier.t = "ARRAY_INDEX"
    THEN evaluateArrayIndexAssignment(node.identifier, node.value, s, st)
    ELSE R(NullValue, Fail(st, "InvalidIdentifierForAssign"))

evalProperties(properties, i, s, st, acc) ==
    IF i > Len(properties) THEN R(acc, st)
    ELSE LET r == Evaluate(properties[i].value, s, st)
         IN evalProperties(properties, i + 1, s, r.st, (properties[i].key :> r.v) @@ acc)

evaluateObject(node, s, st) ==
    LET p == evalProperties(node.properties, 1, s, st, EmptyMap)
    IN IF p.st.err # "" THEN R(NullValue, p.st)
       ELSE R(ObjectValue(Len(p.st.objects) + 1), [p.st EXCEPT !.objects = Append(@, p.v)])

evaluateMemberAccess(node, s, st) ==
    LET o == Evaluate(node.object, s, st)
    IN IF o.st.err # "" THEN R(NullValue, o.st)
       ELSE IF o.v.t = "ARRAY" THEN GetArrayMethod(o.v.ref, node.property, o.st)
       ELSE IF o.v.t = "STRING" THEN GetStringMethod(o.v, node.property, o.st)
       ELSE IF o.v.t # "OBJECT" THEN R(NullValue, Fail(o.st, "CannotAccessProperty"))
       ELSE IF node.property \in DOMAIN o.st.objects[o.v.ref]
            THEN R(o.st.objects[o.v.ref][node.property], o.st)
       ELSE R(NullValue, Fail(o.st, "PropertyNotFound"))

evaluateArray(node, s, st) ==
    LET e == evalList(node.elements, 1, s, st, <<>>)
    IN IF e.st.err # "" THEN R(NullValue, e.st)
       ELSE R(ArrayValue(Len(e.st.arrays) + 1), NewArray(e.st, e.v))

evaluateArrayIndex(node, s, st) ==
    LET v == Evaluate(node.arrayExpression, s, st)
        ix == Evaluate(node.index, s, v.st)
    IN IF ix.st.err # "" THEN R(NullValue, ix.st)
       ELSE IF ix.v.t # "NUMERIC" THEN R(NullValue, Fail(ix.st, "IndexMustBeNumeric"))
       ELSE LET index == toZeroBased(ix.v.n)
            IN IF v.v.t = "STRING"
               THEN IF index < 0 \/ index >= Len(v.v.s)
                    THEN R(NullValue, Fail(ix.st, "StringIndexOutOfBounds"))
                    ELSE R(StringValue(ByteToString(v.v.s[index + 1])), ix.st)
               ELSE IF v.v.t = "ARRAY"
               THEN IF index < 0 \/ index >= ix.st.arrays[v.v.ref].len
                    THEN R(NullValue, Fail(ix.st, "ArrayIndexOutOfBounds"))
                    ELSE R(ix.st.bufs[ix.st.arrays[v.v.ref].buf][index + 1], ix.st)
               ELSE R(NullValue, Fail(ix.st, "CannotIndexType"))

\* the body of a user function: a ReturnValue ends the call and is unwrapped
callBody(body, i, funScope, st, result) ==
    IF i > Len(body) THEN R(implicitReturn(result), st)
    ELSE LET r == Evaluate(body[i], funScope, st)
         IN IF r.st.err = "" /\ r.v.t # "RETURN_VALUE"
            THEN callBody(body, i + 1, funScope, r.st, r.v)
            ELSE IF r.st.err # "" THEN R(NullValue, r.st)
            ELSE R(r.v.value, r.st)

evaluateCallExpression(node, s, st) ==
    LET c == Evaluate(node.callee, s, st)
    IN IF c.st.err # "" THEN R(NullValue, c.st)
       ELSE IF c.v.t = "NATIVE_FUNCTION"
       THEN LET a == evalList(node.args, 1, s, c.st, <<>>)
            IN IF a.st.err # "" THEN R(NullValue, a.st) ELSE CallNative(c.v, a.v, a.st)
       ELSE IF c.v.t = "FUNCTION_DECLARATION"
       THEN IF Len(node.args) # Len(c.v.parameters)
            THEN R(NullValue, Fail(c.st, "FunctionArgCountMismatch"))
            ELSE LET a == evalList(node.args, 1, s, c.st, <<>>)
                     tk == Tick(a.st)
                     st1 == NewScope(tk, funScopeParent(c.v, s))
                     funScope == Len(st1.scopes)
                     st2 == declareParameters(st1, funScope, c.v.parameters, a.v, 1)
                 IN IF a.st.err # "" THEN R(NullValue, a.st)
                    ELSE IF tk.err # "" THEN R(NullValue, tk)
                    ELSE IF st2.err # "" THEN R(NullValue, st2)
                    ELSE callBody(c.v.body, 1, funScope, st2, NullValue)
       ELSE R(NullValue, Fail(c.st, "CannotCallNonFunction"))

evaluateFunctionDeclaration(node, s, st) ==
    LET fun == FunctionValue(node.identifier, node.parameters, node.body, s)
    IN R(fun, Declare(st, s, node.identifier, fun, FALSE))

\* the statements of an if / else-if / else body: all of them are evaluated
runBlock(body, i, s, st, result) ==
    IF i > Len(body) THEN R(result, st)
    ELSE LET r == Evaluate(body[i], s, st)
         IN IF r.st.err # "" THEN R(NullValue, r.st)
            ELSE runBlock(body, i + 1, s, r.st, r.v)

elseIfs(node, k, s, st) ==
    IF k > Len(node.elseIfs)
    THEN IF Len(node.elseBody) > 0 THEN runBlock(node.elseBody, 1, s, st, NullValue)
         ELSE R(NullValue, st)
    ELSE LET c == Evaluate(node.elseIfs[k].condition, s, st)
         IN IF c.st.err # "" THEN R(NullValue, c.st)
            ELSE IF isTruthy(c.v) THEN runBlock(node.elseIfs[k].body, 1, s, c.st, NullValue)
            ELSE elseIfs(node, k + 1, s, c.st)

\* (evaluateIfStatement_FallThrough: after the if body the else-if clauses
\* and the else are still gone through)
evaluateIfStatement_FallThrough(node, s, st) ==
    LET c == Evaluate(node.condition, s, st)
    IN IF c.st.err # "" THEN R(NullValue, c.st)
       ELSE IF isTruthy(c.v)
       THEN LET b == runBlock(node.body, 1, s, c.st, NullValue)
            IN IF b.st.err # "" THEN b ELSE elseIfs(node, 1, s, b.st)
       ELSE elseIfs(node, 1, s, c.st)

evaluateIfStatement(node, s, st) ==
    LET c == Evaluate(node.condition, s, st)
    IN IF c.st.err # "" THEN R(NullValue, c.st)
       ELSE IF isTruthy(c.v) THEN runBlock(node.body, 1, s, c.st, NullValue)
       ELSE elseIfs(node, 1, s, c.st)

\* the statements of a loop body: a BreakValue ends the loop
loopBody(body, i, s, st, result) ==
    IF i > Len(body) THEN [v |-> result, st |-> st, broke |-> FALSE]
    ELSE LET r == Evaluate(body[i], s, st)
         IN IF r.st.err = "" /\ r.v.t # "BREAK_EXPRESSION"
            THEN loopBody(body, i + 1, s, r.st, r.v)
            ELSE [v |-> NullValue, st |-> r.st, broke |-> r.st.err = ""]

infiniteLoop(node, s, st) ==
    LET tk == Tick(st)
        b == loopBody(node.body, 1, s, tk, NullValue)
    IN IF tk.err = "" /\ b.st.err = "" /\ ~b.broke THEN infiniteLoop(node, s, b.st)
       ELSE R(NullValue, IF tk.err # "" THEN tk ELSE b.st)

conditionLoop(node, s, st, result) ==
    LET c == Evaluate(node.condition, s, st)
        tk == Tick(c.st)
        b == loopBody(node.body, 1, s, tk, result)
    IN IF c.st.err = "" /\ isTruthy(c.v) /\ tk.err = "" /\ b.st.err = "" /\ ~b.broke
       THEN conditionLoop(node, s, b.st, b.v)
       ELSE IF c.st.err # "" THEN R(NullValue, c.st)
       ELSE IF ~isTruthy(c.v) THEN R(result, c.st)
       ELSE R(NullValue, IF tk.err # "" THEN tk ELSE b.st)

rangeLoop(node, s, st, current, to, increment, goingForward, result) ==
    LET tk == Tick(st)
        a == Assign(tk, s, node.loopVar, NumericValue(current))
        b == loopBody(node.body, 1, s, a, result)
    IN IF ~rangeDone(goingForward, current, to) /\ tk.err = "" /\ a.err = ""
          /\ b.st.err = "" /\ ~b.broke
       THEN rangeLoop(node, s, b.st, current + increment, to, increment, goingForward, b.v)
       ELSE IF rangeDone(goingForward, current, to) THEN R(result, st)
       ELSE R(NullValue, IF tk.err # "" THEN tk ELSE IF a.err # "" THEN a ELSE b.st)

evaluateRangeLoop(node, s, st) ==
    LET f == Evaluate(node.from, s, st)
        t == Evaluate(node.to, s, f.st)
        inc == IF node.increment.t # "nil" THEN Evaluate(node.increment, s, t.st)
               ELSE R(NumericValue(1), t.st)
    IN IF t.st.err # "" THEN R(NullValue, t.st)
       ELSE IF f.v.t # "NUMERIC" \/ t.v.t # "NUMERIC"
       THEN R(NullValue, Fail(t.st, "RangeLoopNeedsNumeric"))
       ELSE IF inc.st.err # "" THEN R(NullValue, inc.st)
       ELSE IF inc.v.t # "NUMERIC" THEN R(NullValue, Fail(inc.st, "RangeLoopIncrementNumeric"))
       ELSE LET st1 == SetVariable(inc.st, s, node.loopVar, NumericValue(f.v.n))
                goingForward == IF node.increment.t # "nil" THEN inc.v.n > 0
                                ELSE f.v.n <= t.v.n
            IN rangeLoop(node, s, st1, f.v.n, t.v.n, inc.v.n, goingForward, NullValue)

\* "for _, element := range arrayValue.Elements": Go evaluates the range
\* expression once, so the loop runs over the slice header (backing array and
\* length) that the array had when the loop started
\* (rangeSlice_Live: the header read again from the array at every iteration)
sliceHeader(st, array) ==
    [array |-> array, buf |-> st.arrays[array].buf, len |-> st.arrays[array].len]
rangeSlice_Live(range, st) == sliceHeader(st, range.array)
rangeSlice(range, st) == range

\* iteration i reads element i of the ranged slice
forEachLoop(node, s, st, range, i, result) ==
    LET tk == Tick(st)
        st1 == SetVariable(tk, s, node.loopVar, tk.bufs[rangeSlice(range, tk).buf][i])
        b == loopBody(node.body, 1, s, st1, result)
    IN IF i <= rangeSlice(range, st).len /\ tk.err = "" /\ b.st.err = "" /\ ~b.broke
       THEN forEachLoop(node, s, b.st, range, i + 1, b.v)
       ELSE IF i > rangeSlice(range, st).len THEN R(result, st)
       ELSE R(NullValue, IF tk.err # "" THEN tk ELSE b.st)

evaluateForEachLoop(node, s, st) ==
    LET it == Evaluate(node.from, s, st)
    IN IF it.st.err # "" THEN R(NullValue, it.st)
       ELSE IF it.v.t # "ARRAY" THEN R(NullValue, Fail(it.st, "ForEachNeedsArray"))
       ELSE forEachLoop(node, s, it.st, sliceHeader(it.st, it.v.ref), 1, NullValue)

evaluateLoopStatement(node, s, st) ==
    IF node.isForEach THEN evaluateForEachLoop(node, s, st)
    ELSE IF node.loopVar # <<>> THEN evaluateRangeLoop(node, s, st)
    ELSE IF node.condition.t = "nil" THEN infiniteLoop(node, s, st)
    ELSE conditionLoop(node, s, st, NullValue)

evaluateReturnStatement(node, s, st) ==
    IF node.value.t = "nil" THEN R(ReturnValue(NullValue), st)
    ELSE LET r == Evaluate(node.value, s, st)
         IN IF r.st.err # "" THEN R(NullValue, r.st) ELSE R(ReturnValue(r.v), r.st)

\* the dispatch on the node type; after a fatal error nothing is evaluated
Evaluate(node, s, st) ==
    IF st.err # "" THEN R(NullValue, st)
    ELSE CASE node.t = "NUMERIC" -> R(NumericValue(node.n), st)
           [] node.t = "BOOLEAN" -> R(BooleanValue(node.b), st)
           [] node.t = "NULL" -> R(NullValue, st)
           [] node.t = "STRING" -> R(StringValue(node.s), st)
           [] node.t = "BINARY_EXPRESSION" -> evaluateBinaryExpression(node, s, st)
           [] node.t = "IDENTIFIER" -> evaluateIdentifier(node, s, st)
           [] node.t = "OBJECT" -> evaluateObject(node, s, st)
           [] node.t = "ARRAY" -> evaluateArray(node, s, st)
           [] node.t = "ARRAY_INDEX" -> evaluateArrayIndex(node, s, st)
           [] node.t = "MEMBER_ACCESS" -> evaluateMemberAccess(node, s, st)
           [] node.t = "CALL_EXPRESSION" -> evaluateCallExpression(node, s, st)
           [] node.t = "VARIABLE_DECLARATION" ->
                evaluateVariableDeclaration(node, node.constant, s, st)
           [] node.t = "VARIABLE_ASSIGNMENT" -> evaluateVariableAssignment(node, s, st)
           [] node.t = "FUNCTION_DECLARATION" -> evaluateFunctionDeclaration(node, s, st)
           [] node.t = "IF_STATEMENT" -> evaluateIfStatement(node, s, st)
           [] node.t = "LOOP_STATEMENT" -> evaluateLoopStatement(node, s, st)
           [] node.t = "BREAK_EXPRESSION" -> evaluateBreakExpression(st)
           [] node.t = "RETURN_STATEMENT" -> evaluateReturnStatement(node, s, st)
           [] OTHER -> R(NullValue, Fail(st, "UnknownNodeType"))

(***************************************************************************)
(* Lexer (internal/lexer/lexer.go).  A token keeps its type, literal and   *)
(* line; the columns and the file name (used by error messages only) are   *)
(* left out.  The letters are the ASCII letters.                           *)
(***************************************************************************)
Letters == {"a", "b", "c", "d", "e", "f", "g", "h", "i", "j", "k", "l", "m", "n", "o", "p", "q", "r", "s", "t", "u", "v", "w", "x", "y", "z", "A", "B", "C", "D", "E", "F", "G", "H", "I", "J", "K", "L", "M", "N", "O", "P", "Q", "R", "S", "T", "U", "V", "W", "X", "Y", "Z"}
Digits == {"0", "1", "2", "3", "4", "5", "6", "7", "8", "9"}

CaptureToken(literal, tokenType, line) == [type |-> tokenType, literal |-> literal, line |-> line]

Keywords ==
    {[w |-> <<"v", "a", "r">>, type |-> "VAR"],
     [w |-> <<"c", "o", "n", "s", "t">>, type |-> "CONST"],
     [w |-> <<"f", "u", "n", "c", "t", "i", "o", "n">>, type |-> "FUNCTION"],
     [w |-> <<"l", "o", "o", "p">>, type |-> "LOOP"],
     [w |-> <<"i", "f">>, type |-> "IF"],
     [w |-> <<"e", "l", "s", "e">>, type |-> "ELSE"],
     [w |-> <<"r", "e", "t", "u", "r", "n">>, type |-> "RETURN"],
     [w |-> <<"b", "r", "e", "a", "k">>, type |-> "BREAK"],
     [w |-> <<"c", "o", "n", "t", "i", "n", "u", "e">>, type |-> "CONTINUE"],
     [w |-> <<"i", "m", "p", "o", "r", "t">>, type |-> "IMPORT"],
     [w |-> <<"t", "r", "u", "e">>, type |-> "TRUE"],
     [w |-> <<"f", "a", "l", "s", "e">>, type |-> "FALSE"],
     [w |-> <<"y", "e", "s">>, type |-> "YES"],
     [w |-> <<"n", "o">>, type |-> "NO"],
     [w |-> <<"o", "n">>, type |-> "ON"],
     [w |-> <<"o", "f", "f">>, type |-> "OFF"],
     [w |-> <<"f", "r", "o", "m">>, type |-> "FROM"],
     [w |-> <<"t", "o">>, type |-> "TO"],
     [w |-> <<"n", "u", "l", "l">>, type |-> "NULL"],
     [w |-> <<"f", "u", "n">>, type |-> "FUNCTION"]}
isKeyword(literal) == \E k \in Keywords : k.w = literal
keywordType(literal) == (CHOOSE k \in Keywords : k.w = literal).type

\* the number of leading characters of chars that belong to set
RECURSIVE Span(_, _)
Span(chars, set) ==
    IF chars # <<>> /\ Head(chars) \in set THEN 1 + Span(Tail(chars), set) ELSE 0
\* the number of leading characters of chars that differ from quoteChar
RECURSIVE SpanUntil(_, _)
SpanUntil(chars, quoteChar) ==
    IF chars # <<>> /\ Head(chars) # quoteChar THEN 1 + SpanUntil(Tail(chars), quoteChar) ELSE 0
Take(chars, n) == SubSeq(chars, 1, n)
Drop(chars, n) == SubSeq(chars, n + 1, Len(chars))

\* does a "-" that is followed by a digit start a number token
minusStartsNumber(chars) == chars[1] = "-" /\ Len(chars) > 1 /\ chars[2] \in Digits

\* the token made of one or two punctuation characters at the head of chars
Punctuation(chars) ==
    LET ch == chars[1]
        two(second) == Len(chars) > 1 /\ chars[2] = second
        one(type) == [n |-> 1, type |-> type]
        pair(type) == [n |-> 2, type |-> type]
    IN CASE ch = "=" -> IF two("=") THEN pair("EQUAL_EQUAL") ELSE one("EQUAL")
         [] ch = "!" -> IF two("=") THEN pair("NOT_EQUAL") ELSE one("EXCLAMATION")
         [] ch = ">" -> IF two("=") THEN pair("GREATER_THAN_EQUAL") ELSE one("GREATER_THAN")
         [] ch = "<" -> IF two("=") THEN pair("LESS_THAN_EQUAL") ELSE one("LESS_THAN")
         [] ch \in {"+", "-", "*", "%"} -> one("OPERATOR")
         [] ch = "/" -> IF two("/") THEN pair("COMMENT") ELSE one("OPERATOR")
         [] ch = "(" -> one("OPEN_PARENTHESES")
         [] ch = ")" -> one("CLOSE_PARENTHESES")
         [] ch = "{" -> one("OPEN_CURLY_BRACKETS")
         [] ch = "}" -> one("CLOSE_CURLY_BRACKETS")
         [] ch = "[" -> one("OPEN_SQUARE_BRACKETS")
         [] ch = "]" -> one("CLOSE_SQUARE_BRACKETS")
         [] ch = ":" -> one("COLON")
         [] ch = ";" -> one("SEMICOLON")
         [] ch = "," -> one("COMMA")
         [] ch = "." -> one("DOT")
         [] ch = "&" -> IF two("&") THEN pair("AND") ELSE one("AMPERSAND")
         [] ch = "|" -> IF two("|") THEN pair("OR") ELSE one("PIPE")
         [] OTHER -> one("UNKNOWN")

\* One iteration of the loop of Lexer.Tokenize over the remaining characters:
\* the characters left, the line reached and the tokens appended.
Scan(chars, line, tokens) == [chars |-> chars, line |-> line, tokens |-> tokens]
tokenizeIteration(chars, line, tokens) ==
    LET ch == chars[1]
    IN CASE ch \in {" ", "\t", "\r"} -> Scan(Tail(chars), line, tokens)
         [] ch = "\n" ->
              Scan(Tail(chars), line + 1, Append(tokens, CaptureToken(<<"\n">>, "NEWLINE", line)))
         [] ch \in Letters ->
              LET n == Span(chars, Letters \cup Digits)
                  literal == Take(chars, n)
              IN Scan(Drop(chars, n), line,
                      Append(tokens, CaptureToken(literal,
                                 IF isKeyword(literal) THEN keywordType(literal)
                                 ELSE "IDENTIFIER", line)))
         [] minusStartsNumber(chars) ->
              LET n == 1 + Span(Tail(chars), Digits \cup {"."})
              IN Scan(Drop(chars, n), line,
                      Append(tokens, CaptureToken(Take(chars, n), "NUMBER", line)))
         [] ch \in Digits ->
              LET n == Span(chars, Digits \cup {"."})
              IN Scan(Drop(chars, n), line,
                      Append(tokens, CaptureToken(Take(chars, n), "NUMBER", line)))
         [] ch \in {"\"", "'"} ->
              LET n == SpanUntil(Tail(chars), ch)
                  literal == stringOfRunes(SubSeq(chars, 2, n + 1), 1, <<>>)
              IN IF n + 1 = Len(chars)
                 THEN Scan(<<>>, line, Append(tokens, CaptureToken(literal, "UNKNOWN", line)))
                 ELSE Scan(Drop(chars, n + 2), line,
                           Append(tokens, CaptureToken(literal, "STRING", line)))
         [] OTHER ->
              LET t == Punctuation(chars)
              IN Scan(Drop(chars, t.n), line,
                      Append(tokens, CaptureToken(Take(chars, t.n), t.type, line)))

\* the token appended after the loop
tokenizeEOF(line, tokens) == Append(tokens, CaptureToken(<<"E", "O", "F">>, "EOF", line))

(***************************************************************************)
(* Parser (package parser).  The parser state p holds the remaining tokens *)
(* and err, the fatal error that ended the process ("" while it runs): a   *)
(* syntax error prints and exits, so once err is set nothing is consumed   *)
(* any more and every loop of the parser stops.  A parse function returns  *)
(* the node (or the list of nodes) n and the parser state p, with err, the *)
(* err of p.                                                               *)
(***************************************************************************)
NewParser(tokens) == [tokens |-> tokens, err |-> ""]
PR(n, p) == [n |-> n, p |-> p, err |-> p.err]

at(p) ==
    IF p.err # "" \/ p.tokens = <<>>
    THEN CaptureToken(<<"E", "O", "F">>, "EOF", 0)
    ELSE p.tokens[1]
next(p) ==
    [tok |-> at(p),
     p |-> IF p.err # "" THEN p
           ELSE IF p.tokens = <<>> THEN [p EXCEPT !.err = "GO_PANIC_index_out_of_range"]
           ELSE [p EXCEPT !.tokens = Tail(@)]]
syntaxError(p) == IF p.err # "" THEN p ELSE [p EXCEPT !.err = "SyntaxError"]
nextWithExpect(p, expected) ==
    LET r == next(p)
    IN IF r.tok.type # expected THEN [tok |-> r.tok, p |-> syntaxError(r.p)] ELSE r
notEOF(p) == at(p).type # "EOF"

\* strconv.ParseFloat on the literal of a number token: an optional "-",
\* then digits and dots.  Only whole numbers are represented.
DigitValue(ch) == CHOOSE d \in 0..9 : DigitChars[d + 1] = ch
RECURSIVE DigitsToNat(_)
DigitsToNat(chars) ==
    IF chars = <<>> THEN 0
    ELSE 10 * DigitsToNat(SubSeq(chars, 1, Len(chars) - 1)) + DigitValue(chars[Len(chars)])
ParseFloat(literal) ==
    LET dots == Cardinality({i \in 1..Len(literal) : literal[i] = "."})
    IN IF dots > 1 THEN [err |-> "GO_PANIC_ParseFloat", n |-> 0]
       ELSE IF dots = 1 THEN [err |-> "UNMODELLED_FRACTION", n |-> 0]
       ELSE IF literal[1] = "-" THEN [err |-> "", n |-> 0 - DigitsToNat(Tail(literal))]
       ELSE [err |-> "", n |-> DigitsToNat(literal)]

\* &BinaryExpression{left, operator, right}, and right alone for the first
\* operand of a binary level
NoOperand == [t |-> "no operand"]
binaryNode(left, operator, right) ==
    IF left = NoOperand THEN right ELSE BinaryExpression(left, operator, right)

RECURSIVE parseStatement(_), parseCommentStatement(_), parseVariableDeclaration(_),
          variableValue(_, _, _),
          parseExpression(_), parseAssignmentExpression(_), assignmentValue(_),
          parseLogicalExpression(_), logicalOperand(_, _, _), logicalLoop(_, _, _),
          parseComparisonOnlyExpression(_), comparisonOperand(_, _, _),
          comparisonLoop(_, _, _),
          parseAdditiveExpression(_), additiveOperand(_, _, _), additiveLoop(_, _, _),
          parseMultiplicativeExpression(_), multiplicativeOperand(_, _, _),
          multiplicativeLoop(_, _, _),
          parsePrimaryExpression(_), parsePostfixExpression(_),
          parseFunctionDeclaration(_), functionBody(_, _), parseBlock(_), blockLoop(_),
          parseArguments(_), argumentsEnd(_), argumentsLoop(_), appendArgument(_, _),
          parseObjectExpression(_), objectLoop(_),
          parseArrayExpression(_), arrayLoop(_),
          parseArrayIndex(_, _), parseMemberAccess(_, _),
          parseCallExpression(_, _), callLoop(_),
          parseIfStatement(_), ifBody(_), elseLoop(_), elseIfBody(_, _),
          parseLoopStatement(_), loopCondition(_), loopFrom(_, _), loopTo(_, _, _),
          loopIncrement(_, _, _, _), loopBlock(_, _), returnValue(_),
          parseReturnStatement(_)

parseImportStatement(p) ==
    LET pathToken == nextWithExpect(next(p).p, "STRING")
    IN PR(ImportStatement(pathToken.tok.literal), pathToken.p)

parseStatement(p) ==
    LET type == at(p).type
    IN CASE type = "IMPORT" -> parseImportStatement(p)
         [] type \in {"VAR", "CONST"} -> parseVariableDeclaration(p)
         [] type = "FUNCTION" -> parseFunctionDeclaration(p)
         [] type = "IF" -> parseIfStatement(p)
         [] type = "LOOP" -> parseLoopStatement(p)
         [] type = "RETURN" -> parseReturnStatement(p)
         [] type = "COMMENT" -> parseCommentStatement(p)
         [] OTHER -> parseExpression(p)

parseCommentStatement(p) ==
    IF notEOF(p) /\ at(p).type # "NEWLINE" THEN parseCommentStatement(next(p).p)
    ELSE PR(Null, p)

\* A parse function that parses one part after another hands each part on
\* to the operator that parses the next one: variableValue, functionBody,
\* ifBody, elseIfBody, loopFrom, loopTo and loopBlock receive the parts parsed
\* so far.
parseVariableDeclaration(p) ==
    LET first == next(p)
        isConstant == first.tok.type = "CONST"
        identifier == nextWithExpect(first.p, "IDENTIFIER")
        p1 == identifier.p
    IN IF at(p1).type \in {"SEMICOLON", "NEWLINE"}
       THEN LET p2 == IF at(p1).type = "SEMICOLON" THEN next(p1).p ELSE p1
            IN IF isConstant THEN PR(Nil, syntaxError(p2))
               ELSE PR(VariableDeclaration(isConstant, identifier.tok.literal, Nil), p2)
       ELSE variableValue(isConstant, identifier.tok.literal,
                          parseExpression(nextWithExpect(p1, "EQUAL").p))
variableValue(isConstant, identifier, value) ==
    IF value.err # "" THEN value
    ELSE PR(VariableDeclaration(isConstant, identifier, value.n),
            IF at(value.p).type = "SEMICOLON" THEN next(value.p).p ELSE value.p)

parseExpression(p) == parseAssignmentExpression(p)

parseAssignmentExpression(p) == assignmentValue(parseLogicalExpression(p))
assignmentValue(left) ==
    IF left.err # "" THEN left
    ELSE IF at(left.p).type = "EQUAL"
    THEN LET value == parseExpression(next(left.p).p)
         IN PR(VariableAssignmentExpression(left.n, value.n), value.p)
    ELSE left

\* A binary level parses its first operand, and then an operand after every
\* operator of the level that follows.  xOperand parses an operand, the first
\* one (left = NoOperand) or the one after the operator; xLoop takes the
\* operand just parsed and looks for an operator of the level after it.
parseLogicalExpression(p) == logicalOperand(NoOperand, <<>>, p)
logicalOperand(left, operator, p) ==
    logicalLoop(left, operator, parseComparisonOnlyExpression(p))
logicalLoop(left, operator, right) ==
    IF right.err # "" THEN right
    ELSE IF at(right.p).type \in {"AND", "OR"}
    THEN logicalOperand(binaryNode(left, operator, right.n), at(right.p).literal,
                         next(right.p).p)
    ELSE PR(binaryNode(left, operator, right.n), right.p)

parseComparisonOnlyExpression(p) == comparisonOperand(NoOperand, <<>>, p)
comparisonOperand(left, operator, p) ==
    comparisonLoop(left, operator, parseAdditiveExpression(p))
comparisonLoop(left, operator, right) ==
    IF right.err # "" THEN right
    ELSE IF at(right.p).type \in {"EQUAL_EQUAL", "NOT_EQUAL", "GREATER_THAN",
                                 "GREATER_THAN_EQUAL", "LESS_THAN", "LESS_THAN_EQUAL"}
    THEN comparisonOperand(binaryNode(left, operator, right.n), at(right.p).literal,
                         next(right.p).p)
    ELSE PR(binaryNode(left, operator, right.n), right.p)

\* the loops of the two arithmetic levels look at the literal of the token,
\* whatever its type
parseAdditiveExpression(p) == additiveOperand(NoOperand, <<>>, p)
additiveOperand(left, operator, p) ==
    additiveLoop(left, operator, parseMultiplicativeExpression(p))
additiveLoop(left, operator, right) ==
    IF right.err # "" THEN right
    ELSE IF at(right.p).literal \in {<<"+">>, <<"-">>}
    THEN additiveOperand(binaryNode(left, operator, right.n), at(right.p).literal,
                         next(right.p).p)
    ELSE PR(binaryNode(left, operator, right.n), right.p)

parseMultiplicativeExpression(p) ==
    multiplicativeOperand(NoOperand, <<>>, p)
multiplicativeOperand(left, operator, p) ==
    multiplicativeLoop(left, operator, parsePrimaryExpression(p))
multiplicativeLoop(left, operator, right) ==
    IF right.err # "" THEN right
    ELSE IF at(right.p).literal \in {<<"/">>, <<"*">>, <<"%">>}
    THEN multiplicativeOperand(binaryNode(left, operator, right.n), at(right.p).literal,
                         next(right.p).p)
    ELSE PR(binaryNode(left, operator, right.n), right.p)

\* the switch on the token's type gives expr, which parsePostfixExpression
\* receives; after a syntax error nothing follows
parsePrimaryExpression(p) ==
    parsePostfixExpression(
        LET token == next(p)
            type == token.tok.type
        IN CASE type = "IDENTIFIER" -> PR(Identifier(token.tok.literal), token.p)
             [] type = "NUMBER" ->
                  LET value == ParseFloat(token.tok.literal)
                  IN IF value.err # "" THEN PR(Nil, [token.p EXCEPT !.err = value.err])
                     ELSE PR(Numeric(value.n), token.p)
             [] type = "OPEN_PARENTHESES" ->
                  LET expr == parseExpression(token.p)
                  IN IF expr.err # "" THEN expr
                     ELSE PR(expr.n, nextWithExpect(expr.p, "CLOSE_PARENTHESES").p)
             [] type = "NULL" -> PR(Null, token.p)
             [] type \in {"TRUE", "YES", "ON"} -> PR(Boolean(TRUE), token.p)
             [] type \in {"FALSE", "NO", "OFF"} -> PR(Boolean(FALSE), token.p)
             [] type = "STRING" -> PR(String(token.tok.literal), token.p)
             [] type = "BREAK" -> PR(BreakExpression, token.p)
             [] type = "OPEN_CURLY_BRACKETS" -> parseObjectExpression(p)
             [] type = "OPEN_SQUARE_BRACKETS" -> parseArrayExpression(p)
             [] OTHER -> PR(Nil, syntaxError(p)))

parsePostfixExpression(expr) ==
    IF expr.err # "" THEN expr
    ELSE LET type == at(expr.p).type
         IN CASE type = "OPEN_SQUARE_BRACKETS" ->
                   parsePostfixExpression(parseArrayIndex(expr.n, expr.p))
              [] type = "OPEN_PARENTHESES" ->
                   parsePostfixExpression(parseCallExpression(expr.n, expr.p))
              [] type = "DOT" -> parsePostfixExpression(parseMemberAccess(expr.n, expr.p))
              [] OTHER -> expr

\* the parameters are the names of the arguments, which must be identifiers
parseFunctionDeclaration(p) ==
    LET identifier == nextWithExpect(next(p).p, "IDENTIFIER")
    IN functionBody(identifier.tok.literal, parseArguments(identifier.p))
functionBody(identifier, args) ==
    IF args.err # "" THEN PR(Nil, args.p)
    ELSE IF \E i \in 1..Len(args.n) : args.n[i].t # "IDENTIFIER"
    THEN PR(Nil, syntaxError(args.p))
    ELSE LET body == parseBlock(nextWithExpect(args.p, "OPEN_CURLY_BRACKETS").p)
         IN PR(FunctionDeclaration(identifier, [i \in 1..Len(args.n) |-> args.n[i].name],
                                   body.n),
               body.p)

\* the list loops take the nodes parsed so far, with the parser state
parseBlock(p) ==
    LET body == blockLoop(PR(<<>>, p))
    IN IF body.err # "" THEN body
       ELSE PR(body.n, nextWithExpect(body.p, "CLOSE_CURLY_BRACKETS").p)
blockLoop(statements) ==
    LET p == statements.p
    IN CASE ~(notEOF(p) /\ at(p).type # "CLOSE_CURLY_BRACKETS") -> statements
         [] at(p).type = "NEWLINE" -> blockLoop(PR(statements.n, next(p).p))
         [] OTHER ->
              LET statement == parseStatement(p)
              IN IF statement.err # "" THEN PR(statements.n, statement.p)
                 ELSE blockLoop(PR(Append(statements.n, statement.n), statement.p))

parseArguments(p) ==
    argumentsEnd(argumentsLoop(PR(<<>>, nextWithExpect(p, "OPEN_PARENTHESES").p)))
argumentsEnd(arguments) ==
    IF arguments.err # "" THEN arguments
    ELSE PR(arguments.n, nextWithExpect(arguments.p, "CLOSE_PARENTHESES").p)
argumentsLoop(arguments) ==
    LET p == arguments.p
    IN CASE ~(notEOF(p) /\ at(p).type # "CLOSE_PARENTHESES") -> arguments
         [] at(p).type \in {"NEWLINE", "COMMA"} -> argumentsLoop(PR(arguments.n, next(p).p))
         [] OTHER -> appendArgument(arguments.n, parseExpression(p))
appendArgument(arguments, argument) ==
    IF argument.err # "" THEN PR(arguments, argument.p)
    ELSE argumentsLoop(PR(Append(arguments, argument.n), argument.p))

parseObjectExpression(p) ==
    IF at(p).type # "OPEN_CURLY_BRACKETS" THEN parseAdditiveExpression(p)
    ELSE LET properties == objectLoop(PR(<<>>, next(p).p))
         IN IF properties.err # "" THEN properties
            ELSE PR(Object(properties.n),
                    nextWithExpect(properties.p, "CLOSE_CURLY_BRACKETS").p)
objectLoop(properties) ==
    LET p == properties.p
    IN CASE ~(notEOF(p) /\ at(p).type # "CLOSE_CURLY_BRACKETS") -> properties
         [] at(p).type = "NEWLINE" -> objectLoop(PR(properties.n, next(p).p))
         [] OTHER ->
              LET key == nextWithExpect(p, "IDENTIFIER")
                  value == parseExpression(nextWithExpect(key.p, "COLON").p)
              IN IF value.err # "" THEN PR(properties.n, value.p)
                 ELSE objectLoop(PR(Append(properties.n, Property(key.tok.literal, value.n)),
                                    IF at(value.p).type = "COMMA" THEN next(value.p).p
                                    ELSE value.p))

parseArrayExpression(p) ==
    IF at(p).type # "OPEN_SQUARE_BRACKETS" THEN parseAdditiveExpression(p)
    ELSE LET elements == arrayLoop(PR(<<>>, next(p).p))
         IN IF elements.err # "" THEN elements
            ELSE PR(Array(elements.n),
                    nextWithExpect(elements.p, "CLOSE_SQUARE_BRACKETS").p)
arrayLoop(elements) ==
    LET p == elements.p
    IN CASE ~(notEOF(p) /\ at(p).type # "CLOSE_SQUARE_BRACKETS") -> elements
         [] at(p).type \in {"NEWLINE", "COMMA"} -> arrayLoop(PR(elements.n, next(p).p))
         [] OTHER ->
              LET element == parseExpression(p)
              IN IF element.err # "" THEN PR(elements.n, element.p)
                 ELSE arrayLoop(PR(Append(elements.n, element.n),
                                   IF at(element.p).type = "COMMA" THEN next(element.p).p
                                   ELSE element.p))

parseArrayIndex(array, p) ==
    LET index == parseExpression(next(p).p)
    IN IF index.err # "" THEN index
       ELSE PR(ArrayIndex(array, index.n),
               nextWithExpect(index.p, "CLOSE_SQUARE_BRACKETS").p)

parseMemberAccess(object, p) ==
    LET property == nextWithExpect(next(p).p, "IDENTIFIER")
    IN PR(MemberAccess(object, property.tok.literal), property.p)

\* the comma between two arguments is optional: an argument ends where its
\* expression ends
parseCallExpression(callee, p) ==
    LET args == callLoop(PR(<<>>, nextWithExpect(p, "OPEN_PARENTHESES").p))
    IN IF args.err # "" THEN args
       ELSE PR(CallExpression(callee, args.n),
               nextWithExpect(args.p, "CLOSE_PARENTHESES").p)
callLoop(args) ==
    LET p == args.p
    IN CASE ~(notEOF(p) /\ at(p).type # "CLOSE_PARENTHESES") -> args
         [] at(p).type = "NEWLINE" -> callLoop(PR(args.n, next(p).p))
         [] OTHER ->
              LET arg == parseExpression(p)
              IN IF arg.err # "" THEN PR(args.n, arg.p)
                 ELSE callLoop(PR(Append(args.n, arg.n),
                                  IF at(arg.p).type = "COMMA" THEN next(arg.p).p ELSE arg.p))

parseIfStatement(p) == ifBody(parseExpression(next(p).p))
ifBody(condition) ==
    IF condition.err # "" THEN condition
    ELSE LET body == parseBlock(nextWithExpect(condition.p, "OPEN_CURLY_BRACKETS").p)
         IN IF body.err # "" THEN body
            ELSE elseLoop(PR(IfStatement(condition.n, body.n, <<>>, <<>>), body.p))
elseLoop(ifStatement) ==
    IF notEOF(ifStatement.p) /\ at(ifStatement.p).type = "ELSE"
    THEN LET p1 == next(ifStatement.p).p
         IN IF at(p1).type = "IF"
            THEN elseIfBody(ifStatement.n, parseExpression(next(p1).p))
            ELSE LET elseBody == parseBlock(nextWithExpect(p1, "OPEN_CURLY_BRACKETS").p)
                 IN PR([ifStatement.n EXCEPT !.elseBody = elseBody.n], elseBody.p)
    ELSE ifStatement
elseIfBody(ifStatement, elseifCondition) ==
    IF elseifCondition.err # "" THEN elseifCondition
    ELSE LET elseifBody ==
                 parseBlock(nextWithExpect(elseifCondition.p, "OPEN_CURLY_BRACKETS").p)
         IN IF elseifBody.err # "" THEN elseifBody
            ELSE elseLoop(PR([ifStatement EXCEPT !.elseIfs =
                                 Append(@, ElseIfClause(elseifCondition.n, elseifBody.n))],
                             elseifBody.p))

parseLoopStatement(p) ==
    LET p0 == next(p).p
    IN IF at(p0).type = "OPEN_CURLY_BRACKETS"
       THEN loopBlock(LoopStatement(Nil, <<>>, <<>>, Nil, Nil, Nil, FALSE), next(p0).p)
       ELSE IF at(p0).type = "IDENTIFIER" /\ Len(p0.tokens) > 4 /\ p0.tokens[2].type = "FROM"
       THEN LET loopVar == next(p0)
            IN loopFrom(loopVar.tok.literal,
                        parseExpression(nextWithExpect(loopVar.p, "FROM").p))
       ELSE loopCondition(parseExpression(p0))
\* after the condition of a condition-based loop
loopCondition(condition) ==
    IF condition.err # "" THEN condition
    ELSE loopBlock(LoopStatement(condition.n, <<>>, <<>>, Nil, Nil, Nil, FALSE),
                   nextWithExpect(condition.p, "OPEN_CURLY_BRACKETS").p)
\* after "loop <var> from <expression>": a range loop if "to" follows, a
\* for-each loop otherwise
loopFrom(loopVar, from) ==
    IF from.err # "" THEN from
    ELSE IF at(from.p).type = "TO"
    THEN loopTo(loopVar, from.n, parseExpression(next(from.p).p))
    ELSE loopBlock(LoopStatement(Nil, <<>>, loopVar, from.n, Nil, Nil, TRUE),
                  nextWithExpect(from.p, "OPEN_CURLY_BRACKETS").p)
\* after "to <expression>": the optional ": increment"
loopTo(loopVar, from, to) ==
    IF to.err # "" THEN to
    ELSE IF at(to.p).type = "COLON"
    THEN loopIncrement(loopVar, from, to.n, parseExpression(next(to.p).p))
    ELSE loopBlock(LoopStatement(Nil, <<>>, loopVar, from, to.n, Nil, FALSE),
                  nextWithExpect(to.p, "OPEN_CURLY_BRACKETS").p)
\* after ": <expression>"
loopIncrement(loopVar, from, to, increment) ==
    IF increment.err # "" THEN increment
    ELSE loopBlock(LoopStatement(Nil, <<>>, loopVar, from, to, increment.n, FALSE),
                  nextWithExpect(increment.p, "OPEN_CURLY_BRACKETS").p)
\* the block after the opening brace is the body of the loop
loopBlock(loopStatement, p) ==
    LET body == parseBlock(p)
    IN PR([loopStatement EXCEPT !.body = body.n], body.p)

parseReturnStatement(p) ==
    LET p0 == next(p).p
    IN IF at(p0).type \in {"CLOSE_CURLY_BRACKETS", "NEWLINE", "EOF"}
       THEN PR(ReturnStatement(Nil), p0)
       ELSE returnValue(parseExpression(p0))
returnValue(value) == PR(ReturnStatement(value.n), value.p)

(***************************************************************************)
(* Programs.  The runs of the model execute the programs below; each is    *)
(* described by a small record and built as the AST the parser produces.   *)
(***************************************************************************)
Id(name) == Identifier(name)
Call(name, args) == CallExpression(Identifier(name), args)
Println(e) == Call(<<"p", "r", "i", "n", "t", "l", "n">>, <<e>>)
Var(name, e) == VariableDeclaration(FALSE, name, e)
Const(name, e) == VariableDeclaration(TRUE, name, e)
Set(name, e) == VariableAssignmentExpression(Identifier(name), e)
Bin(l, op, r) == BinaryExpression(l, op, r)
If(c, body) == IfStatement(c, body, <<>>, <<>>)
Infinite(body) == LoopStatement(Nil, body, <<>>, Nil, Nil, Nil, FALSE)
While(c, body) == LoopStatement(c, body, <<>>, Nil, Nil, Nil, FALSE)
Range(v, from, to, inc, body) == LoopStatement(Nil, body, v, from, to, inc, FALSE)
ForEach(v, arr, body) == LoopStatement(Nil, body, v, arr, Nil, Nil, TRUE)
Fun(name, params, body) == FunctionDeclaration(name, params, body)

Nums == -MaxNum..MaxNum
LoopKinds == {"infinite", "while", "range", "foreach"}

\* a loop of the given kind that would run three times (the infinite one
\* for ever), its counter i taking the values 1, 2, 3; the while and the
\* infinite loop count in a variable declared by LoopDecl and reset by LoopReset
LoopDecl(kind) == IF kind \in {"infinite", "while"} THEN <<Var(<<"i">>, Numeric(0))>> ELSE <<>>
LoopReset(kind) == IF kind \in {"infinite", "while"} THEN <<Set(<<"i">>, Numeric(0))>> ELSE <<>>
LoopStmt(kind, body) ==
    CASE kind = "infinite" -> Infinite(<<Set(<<"i">>, Bin(Id(<<"i">>), <<"+">>, Numeric(1)))>> \o body)
      [] kind = "while" ->
            While(Bin(Id(<<"i">>), <<"<">>, Numeric(3)),
                  <<Set(<<"i">>, Bin(Id(<<"i">>), <<"+">>, Numeric(1)))>> \o body)
      [] kind = "range" -> Range(<<"i">>, Numeric(1), Numeric(3), Nil, body)
      [] kind = "foreach" ->
            ForEach(<<"i">>, Array(<<Numeric(1), Numeric(2), Numeric(3)>>), body)
LoopOf(kind, body) == LoopDecl(kind) \o <<LoopStmt(kind, body)>>

\* const k = v, then an attempt to give k a new value, or a read of k
ConstProgram(in) ==
    <<Const(<<"k">>, Numeric(in.v))>> \o
    (CASE in.how = "assign" -> <<Set(<<"k">>, Numeric(in.w))>>
       [] in.how = "assignNested" ->
            <<Fun(<<"f">>, <<>>, <<Set(<<"k">>, Numeric(in.w))>>), Call(<<"f">>, <<>>)>>
       [] in.how = "range" ->
            <<Range(<<"k">>, Numeric(in.w), Numeric(in.w + 1), Nil, <<Println(Id(<<"k">>))>>)>>
       [] in.how = "rangeEmpty" ->
            <<Range(<<"k">>, Numeric(in.w + 1), Numeric(in.w), Numeric(1), <<Println(Id(<<"k">>))>>)>>
       [] in.how = "foreach" ->
            <<ForEach(<<"k">>, Array(<<Numeric(in.w), Numeric(in.w + 5)>>), <<Println(Id(<<"k">>))>>)>>
       [] in.how = "read" -> <<Fun(<<"f">>, <<>>, <<Id(<<"k">>)>>), Println(Call(<<"f">>, <<>>))>>
       [] in.how = "readDeep" ->
            <<Fun(<<"g">>, <<>>, <<Fun(<<"h">>, <<>>, <<Id(<<"k">>)>>), Call(<<"h">>, <<>>)>>),
              Println(Call(<<"g">>, <<>>))>>) \o
    <<Println(Id(<<"k">>))>>
ConstInputs ==
    [fam : {"const"},
     how : {"assign", "assignNested", "range", "rangeEmpty", "foreach", "read", "readDeep"},
     v : 0..1, w : 1..2]

\* fun f() { ... return 7 ... }  var r = f()  println(r): the return sits
\* directly in the body, in an if body (last in it, followed by a statement,
\* or in an inner if that a statement follows), or in the body of a loop
ReturnProgram(in) ==
    <<Fun(<<"f">>, <<>>,
          CASE in.where = "plain" ->
                  <<Println(Numeric(1)), ReturnStatement(Numeric(7)), Println(Numeric(99))>>
            [] in.where = "bare" ->
                  <<Println(Numeric(1)), ReturnStatement(Nil), Println(Numeric(99))>>
            [] in.where = "ifLast" ->
                  <<Println(Numeric(1)), If(Boolean(TRUE), <<ReturnStatement(Numeric(7))>>),
                    Println(Numeric(99))>>
            [] in.where = "ifMore" ->
                  <<Println(Numeric(1)),
                    If(Boolean(TRUE), <<ReturnStatement(Numeric(7)), Println(Numeric(98))>>),
                    Println(Numeric(99))>>
            [] in.where = "ifIf" ->
                  <<Println(Numeric(1)),
                    If(Boolean(TRUE), <<If(Boolean(TRUE), <<ReturnStatement(Numeric(7))>>),
                                        Println(Numeric(98))>>),
                    Println(Numeric(99))>>
            [] in.where \in LoopKinds ->
                  LoopOf(in.where, <<Println(Id(<<"i">>)), ReturnStatement(Numeric(7))>>)
                  \o <<Println(Numeric(99))>>),
      Var(<<"r">>, Call(<<"f">>, <<>>)),
      Println(Id(<<"r">>))>>
ReturnInputs ==
    [fam : {"return"}, where : {"plain", "bare", "ifLast", "ifMore", "ifIf"} \cup LoopKinds]

\* a loop whose body breaks in its second iteration, then println(50)
BreakProgram(in) ==
    (CASE in.where = "direct" ->
            LoopOf(in.kind, <<Println(Id(<<"i">>)), BreakExpression, Println(Numeric(99))>>)
       [] in.where = "ifLast" ->
            LoopOf(in.kind, <<Println(Id(<<"i">>)),
                              If(Bin(Id(<<"i">>), <<"=", "=">>, Numeric(2)), <<BreakExpression>>),
                              Println(Bin(Id(<<"i">>), <<"+">>, Numeric(10)))>>)
       [] in.where = "ifMore" ->
            LoopOf(in.kind, <<Println(Id(<<"i">>)),
                              If(Bin(Id(<<"i">>), <<"=", "=">>, Numeric(2)),
                                 <<BreakExpression, Println(Numeric(98))>>),
                              Println(Bin(Id(<<"i">>), <<"+">>, Numeric(10)))>>)
       [] in.where = "ifIf" ->
            LoopOf(in.kind, <<Println(Id(<<"i">>)),
                              If(Bin(Id(<<"i">>), <<"=", "=">>, Numeric(2)),
                                 <<If(Boolean(TRUE), <<BreakExpression>>),
                                   Println(Numeric(98))>>),
                              Println(Bin(Id(<<"i">>), <<"+">>, Numeric(10)))>>)
       [] in.where = "nested" ->
            LoopDecl(in.kind) \o
            <<Range(<<"o">>, Numeric(1), Numeric(2), Nil,
                    LoopReset(in.kind) \o
                    <<LoopStmt(in.kind, <<If(Bin(Id(<<"i">>), <<"=", "=">>, Numeric(2)), <<BreakExpression>>),
                                          Println(Id(<<"i">>))>>),
                      Println(Bin(Id(<<"o">>), <<"+">>, Numeric(20)))>>)>>) \o
    <<Println(Numeric(50))>>
BreakInputs ==
    [fam : {"break"}, where : {"direct", "ifLast", "ifMore", "ifIf", "nested"}, kind : LoopKinds]

\* places where the value of a break expression can end up
SentinelProgram(in) ==
    CASE in.where = "var" -> <<Var(<<"x">>, BreakExpression)>>
      [] in.where = "assign" -> <<Var(<<"x">>, Numeric(0)), Set(<<"x">>, BreakExpression)>>
      [] in.where = "element" -> <<Var(<<"a">>, Array(<<Numeric(1), BreakExpression>>))>>
      [] in.where = "property" -> <<Var(<<"o">>, Object(<<Property(<<"p">>, BreakExpression)>>))>>
      [] in.where = "argument" ->
            <<Fun(<<"g">>, <<<<"a">>>>, <<Numeric(1)>>), Call(<<"g">>, <<BreakExpression>>)>>
      [] in.where = "result" -> <<Fun(<<"f">>, <<>>, <<BreakExpression>>), Var(<<"x">>, Call(<<"f">>, <<>>))>>
      [] in.where = "calleeBreak" ->
            <<Fun(<<"f">>, <<>>, <<BreakExpression>>)>> \o
            LoopOf(in.kind, <<Println(Id(<<"i">>)), Call(<<"f">>, <<>>),
                              Println(Bin(Id(<<"i">>), <<"+">>, Numeric(10)))>>) \o
            <<Println(Numeric(50))>>
      [] in.where = "returned" ->
            <<Fun(<<"f">>, <<>>, <<ReturnStatement(Numeric(7))>>),
              Var(<<"x">>, Call(<<"f">>, <<>>)),
              Var(<<"a">>, Array(<<Call(<<"f">>, <<>>)>>))>>
SentinelInputs ==
    [fam : {"sentinel"},
     where : {"var", "assign", "element", "property", "argument", "result", "returned"},
     kind : {"range"}]
    \cup [fam : {"sentinel"}, where : {"calleeBreak"}, kind : {"while", "range", "foreach"}]

\* fun make() { var c = 0  fun inc() { c = c + 1  c }  inc }  var f = make()
\* followed by n times println(f())
ClosureProgram(in) ==
    <<Fun(<<"m", "a", "k", "e">>, <<>>,
          <<Var(<<"c">>, Numeric(0)),
            Fun(<<"i", "n", "c">>, <<>>, <<Set(<<"c">>, Bin(Id(<<"c">>), <<"+">>, Numeric(1))), Id(<<"c">>)>>),
            Id(<<"i", "n", "c">>)>>),
      Var(<<"f">>, Call(<<"m", "a", "k", "e">>, <<>>))>> \o
    [j \in 1..in.n |-> Println(Call(<<"f">>, <<>>))]
ClosureInputs == [fam : {"closure"}, n : 1..MaxCalls]

\* a callee declared at top level and called from inside caller()
ScopeProgram(in) ==
    CASE in.how = "callerOnly" ->
            <<Fun(<<"c", "a", "l", "l", "e", "e">>, <<>>, <<Id(<<"y">>)>>),
              Fun(<<"c", "a", "l", "l", "e", "r">>, <<>>, <<Var(<<"y">>, Numeric(in.v)), Call(<<"c", "a", "l", "l", "e", "e">>, <<>>)>>),
              Println(Call(<<"c", "a", "l", "l", "e", "r">>, <<>>))>>
      [] in.how = "both" ->
            <<Var(<<"x">>, Numeric(in.v)),
              Fun(<<"c", "a", "l", "l", "e", "e">>, <<>>, <<Set(<<"x">>, Bin(Id(<<"x">>), <<"+">>, Numeric(10))), Id(<<"x">>)>>),
              Fun(<<"c", "a", "l", "l", "e", "r">>, <<>>,
                  <<Var(<<"x">>, Numeric(in.w)), Println(Call(<<"c", "a", "l", "l", "e", "e">>, <<>>)), Println(Id(<<"x">>))>>),
              Call(<<"c", "a", "l", "l", "e", "r">>, <<>>),
              Println(Id(<<"x">>))>>
ScopeInputs == [fam : {"scope"}, how : {"callerOnly", "both"}, v : 0..MaxNum, w : 0..MaxNum]

\* fun f(a, b) { pre  e }  println(f(x, y)) with no return in the body
LastExprs == <<Id(<<"a">>), Id(<<"b">>), Bin(Id(<<"a">>), <<"-">>, Id(<<"b">>)), Bin(Id(<<"a">>), <<"*">>, Id(<<"b">>)),
               Bin(Bin(Id(<<"a">>), <<"+">>, Id(<<"a">>)), <<"+">>, Id(<<"b">>)), Bin(Id(<<"a">>), <<"<">>, Id(<<"b">>))>>
ImplicitProgram(in) ==
    <<Fun(<<"f">>, <<<<"a">>, <<"b">>>>,
          (IF in.pre THEN <<Var(<<"t">>, Bin(Id(<<"a">>), <<"+">>, Numeric(1))), Println(Id(<<"t">>))>> ELSE <<>>)
          \o (IF in.e = 0 THEN <<>> ELSE <<LastExprs[in.e]>>)),
      Var(<<"r">>, Call(<<"f">>, <<Numeric(in.x), Numeric(in.y)>>)),
      Println(Id(<<"r">>))>>
ImplicitInputs ==
    [fam : {"implicit"}, pre : {FALSE}, e : 0..Len(LastExprs), x : Nums, y : Nums]
    \cup [fam : {"implicit"}, pre : {TRUE}, e : 1..Len(LastExprs), x : {MaxNum}, y : Nums]

\* loop i from <from> to <to> [: inc] { println(i) }  println(100)
RangeProgram(in) ==
    <<Range(<<"i">>, Numeric(in.from), Numeric(in.to),
            IF in.hasInc THEN Numeric(in.inc) ELSE Nil, <<Println(Id(<<"i">>))>>),
      Println(Numeric(100))>>
RangeInputs ==
    [fam : {"range"}, from : Nums, to : Nums, hasInc : {TRUE}, inc : -MaxInc..MaxInc]
    \cup [fam : {"range"}, from : Nums, to : Nums, hasInc : {FALSE}, inc : {1}]

(***************************************************************************)
(* Programs on arrays, objects, logical operators and declarations.        *)
(***************************************************************************)
\* longest array literal of the programs below
MaxLen == 3

Method(object, name, args) == CallExpression(MemberAccess(object, name), args)
Index(name, i) == ArrayIndex(Id(name), Numeric(i))
SetIndex(name, i, e) == VariableAssignmentExpression(Index(name, i), e)
SetProperty(name, property, e) ==
    VariableAssignmentExpression(MemberAccess(Id(name), property), e)
\* the array literal [11, 12, ..., 10 + n]
Literal(n) == Array([k \in 1..n |-> Numeric(10 + k)])
LiteralValues(n) == [k \in 1..n |-> NumericValue(10 + k)]
Push == <<"p", "u", "s", "h">>
Pop == <<"p", "o", "p">>
Remove == <<"r", "e", "m", "o", "v", "e">>
Insert == <<"i", "n", "s", "e", "r", "t">>
Reverse == <<"r", "e", "v", "e", "r", "s", "e">>
LenName == <<"l", "e", "n">>

\* var a = [11, ..]  then  println(a[i])  or  a[i] = 99,  then println(a.len())
IndexProgram(in) ==
    <<Var(<<"a">>, Literal(in.n)),
      IF in.write THEN SetIndex(<<"a">>, in.i, Numeric(99)) ELSE Println(Index(<<"a">>, in.i)),
      Println(Method(Id(<<"a">>), LenName, <<>>))>>
IndexInputs == [fam : {"index"}, n : 0..MaxLen, i : -1..(MaxLen + 1), write : BOOLEAN]

\* var a = [11, 12]  var b = a  followed by two mutations, each made through
\* a or through b; or var a = {p: 1}  var b = a  and two property writes
Mutation(name, op) ==
    CASE op = 1 -> Method(Id(name), Push, <<Numeric(7)>>)
      [] op = 2 -> Method(Id(name), Pop, <<>>)
      [] op = 3 -> Method(Id(name), Remove, <<Numeric(1)>>)
      [] op = 4 -> Method(Id(name), Insert, <<Numeric(2), Numeric(8)>>)
      [] op = 5 -> Method(Id(name), Reverse, <<>>)
      [] op = 6 -> SetIndex(name, 1, Numeric(9))
PropertyWrite(name, op) ==
    CASE op = 1 -> SetProperty(name, <<"p">>, Numeric(2))
      [] op = 2 -> SetProperty(name, <<"r">>, Numeric(3))
AliasProgram(in) ==
    IF in.kind = "array"
    THEN <<Var(<<"a">>, Literal(2)), Var(<<"b">>, Id(<<"a">>)),
           Mutation(in.via1, in.op1), Mutation(in.via2, in.op2)>>
    ELSE <<Var(<<"a">>, Object(<<Property(<<"p">>, Numeric(1))>>)), Var(<<"b">>, Id(<<"a">>)),
           PropertyWrite(in.via1, in.op1), PropertyWrite(in.via2, in.op2)>>
AliasInputs ==
    [fam : {"alias"}, kind : {"array"}, op1 : 1..6, via1 : {<<"a">>, <<"b">>},
     op2 : 1..6, via2 : {<<"a">>, <<"b">>}]
    \cup [fam : {"alias"}, kind : {"object"}, op1 : 1..2, via1 : {<<"a">>, <<"b">>},
          op2 : 1..2, via2 : {<<"a">>, <<"b">>}]

\* var a = [11, ..]  a.push(v)  var r = a.pop(),  v a literal or a itself
PushedNodes == <<Numeric(7), String(<<"s">>), Null, Boolean(TRUE), Id(<<"a">>)>>
\* (the array a is the first array the program makes)
PushedValues ==
    <<NumericValue(7), StringValue(<<"s">>), NullValue, BooleanValue(TRUE), ArrayValue(1)>>
PushPopProgram(in) ==
    <<Var(<<"a">>, Literal(in.n)),
      Method(Id(<<"a">>), Push, <<PushedNodes[in.v]>>),
      Var(<<"r">>, Method(Id(<<"a">>), Pop, <<>>))>>
PushPopInputs == [fam : {"pushpop"}, n : 0..MaxLen, v : 1..Len(PushedNodes)]

\* var arr = [..strings..]  var r = arr.join(s).split(s)
Strings == {<<>>, <<"a">>, <<"b">>, <<"a", "b">>}
Separators == {<<",">>, <<>>, <<"a">>, <<"-", "-">>}
JoinProgram(in) ==
    <<Var(<<"a", "r", "r">>, Array([k \in 1..Len(in.arr) |-> String(in.arr[k])])),
      Var(<<"r">>, Method(Method(Id(<<"a", "r", "r">>), <<"j", "o", "i", "n">>, <<String(in.s)>>),
                          <<"s", "p", "l", "i", "t">>, <<String(in.s)>>))>>
JoinInputs ==
    [fam : {"join"}, arr : {<<>>} \cup [1..1 -> Strings] \cup [1..2 -> Strings], s : Separators]

\* var a = [11, ..]  loop x from a { println(x) <mutations of a> }  println(a.len())
ForEachBodies ==
    <<<<Method(Id(<<"a">>), Push, <<Id(<<"x">>)>>)>>,
      <<Method(Id(<<"a">>), Pop, <<>>)>>,
      <<Method(Id(<<"a">>), Remove, <<Numeric(1)>>)>>,
      <<Method(Id(<<"a">>), Insert, <<Numeric(1), Id(<<"x">>)>>)>>,
      <<Method(Id(<<"a">>), Push, <<Id(<<"x">>)>>), Method(Id(<<"a">>), Push, <<Id(<<"x">>)>>)>>,
      <<Method(Id(<<"a">>), Pop, <<>>), Method(Id(<<"a">>), Pop, <<>>)>>,
      <<Method(Id(<<"a">>), Remove, <<Numeric(2)>>)>>,
      <<Method(Id(<<"a">>), Insert, <<Numeric(1), Id(<<"x">>)>>), Method(Id(<<"a">>), Remove, <<Numeric(2)>>),
        Method(Id(<<"a">>), Pop, <<>>)>>,
      <<Method(Id(<<"a">>), Pop, <<>>), Method(Id(<<"a">>), Insert, <<Numeric(1), Numeric(0)>>)>>>>
MutateProgram(in) ==
    <<Var(<<"a">>, Literal(in.n)),
      ForEach(<<"x">>, Id(<<"a">>), <<Println(Id(<<"x">>))>> \o ForEachBodies[in.body]),
      Println(Method(Id(<<"a">>), LenName, <<>>))>>
MutateInputs == [fam : {"mutate"}, n : 0..MaxLen, body : 1..Len(ForEachBodies)]

\* fun f(v) { println(1)  v }  fun g(v) { println(2)  v }
\* var r = f(A) && g(B)   (or ||)   println(r)
OperandNodes == <<Boolean(TRUE), Boolean(FALSE), Numeric(0), Numeric(1), String(<<>>),
                  String(<<"x">>), Null>>
OperandTruth == <<TRUE, FALSE, FALSE, TRUE, FALSE, TRUE, FALSE>>
LogicProgram(in) ==
    <<Fun(<<"f">>, <<<<"v">>>>, <<Println(Numeric(1)), Id(<<"v">>)>>),
      Fun(<<"g">>, <<<<"v">>>>, <<Println(Numeric(2)), Id(<<"v">>)>>),
      Var(<<"r">>, Bin(Call(<<"f">>, <<OperandNodes[in.a]>>), in.op,
                       Call(<<"g">>, <<OperandNodes[in.b]>>))),
      Println(Id(<<"r">>))>>
LogicInputs ==
    [fam : {"logic"}, op : {<<"&", "&">>, <<"|", "|">>}, a : 1..Len(OperandNodes),
     b : 1..Len(OperandNodes)]

\* same:    var|const x = 1   var|const x = 2
\* shadow:  var|const x = 1   fun f() { var|const x = 2  [x = 3]  println(x) }  f()  println(x)
DeclareProgram(in) ==
    <<VariableDeclaration(in.c1, <<"x">>, Numeric(1))>> \o
    (IF in.how = "same" THEN <<VariableDeclaration(in.c2, <<"x">>, Numeric(2))>>
     ELSE <<Fun(<<"f">>, <<>>,
                <<VariableDeclaration(in.c2, <<"x">>, Numeric(2))>>
                \o (IF in.assign THEN <<Set(<<"x">>, Numeric(3))>> ELSE <<>>)
                \o <<Println(Id(<<"x">>))>>),
            Call(<<"f">>, <<>>),
            Println(Id(<<"x">>))>>)
DeclareInputs ==
    [fam : {"declare"}, how : {"same"}, c1 : BOOLEAN, c2 : BOOLEAN, assign : {FALSE}]
    \cup {in \in [fam : {"declare"}, how : {"shadow"}, c1 : BOOLEAN, c2 : BOOLEAN, assign : BOOLEAN] :
            in.assign => ~in.c2}


\* [var|const x = 1]  var y = 5
\* fun f() { [var|const x = 2]  var y = 6
\*           fun g() { [var|const x = 3]  var w = 7  x = 9 }  g() }
\* f()
Declared(how, v) ==
    IF how = "none" THEN <<>> ELSE <<VariableDeclaration(how = "const", <<"x">>, Numeric(v))>>
AssignProgram(in) ==
    Declared(in.d[1], 1) \o
    <<Var(<<"y">>, Numeric(5)),
      Fun(<<"f">>, <<>>,
          Declared(in.d[2], 2) \o
          <<Var(<<"y">>, Numeric(6)),
            Fun(<<"g">>, <<>>,
                Declared(in.d[3], 3) \o
                <<Var(<<"w">>, Numeric(7)), Set(<<"x">>, Numeric(9))>>),
            Call(<<"g">>, <<>>)>>),
      Call(<<"f">>, <<>>)>>
AssignInputs == [fam : {"assign"}, d : [1..3 -> {"none", "var", "const"}]]

\* a construct whose body declares v, then println(v), at the top level or in
\* the body of a called function; a loop runs its body in.n times
BlockKinds == {"if", "elseif", "else", "range", "while", "foreach", "infinite"}
DeclareV == Var(<<"v">>, Numeric(1))
BlockConstruct(in) ==
    CASE in.kind = "if" -> <<If(Boolean(TRUE), <<DeclareV>>)>>
      [] in.kind = "elseif" ->
            <<IfStatement(Boolean(FALSE), <<>>, <<ElseIfClause(Boolean(TRUE), <<DeclareV>>)>>, <<>>)>>
      [] in.kind = "else" -> <<IfStatement(Boolean(FALSE), <<>>, <<>>, <<DeclareV>>)>>
      [] in.kind = "range" -> <<Range(<<"i">>, Numeric(1), Numeric(in.n), Nil, <<DeclareV>>)>>
      [] in.kind = "while" ->
            <<Var(<<"c">>, Numeric(in.n)),
              While(Id(<<"c">>),
                    <<DeclareV, Set(<<"c">>, Bin(Id(<<"c">>), <<"-">>, Numeric(1)))>>)>>
      [] in.kind = "foreach" ->
            <<ForEach(<<"i">>, Array([k \in 1..in.n |-> Numeric(k)]), <<DeclareV>>)>>
      [] in.kind = "infinite" ->
            <<Infinite(<<DeclareV>> \o (IF in.n = 1 THEN <<BreakExpression>> ELSE <<>>))>>
BlockProgram(in) ==
    IF in.inFun
    THEN <<Fun(<<"f">>, <<>>, BlockConstruct(in) \o <<Println(Id(<<"v">>))>>), Call(<<"f">>, <<>>)>>
    ELSE BlockConstruct(in) \o <<Println(Id(<<"v">>))>>
BlockInputs == [fam : {"block"}, kind : BlockKinds, n : 1..2, inFun : BOOLEAN]

\* var a = [11, ..]   a[i] = 99 | a.pop() | a.push(5)   println(a.len())
StoredNodes ==
    [lit |-> Numeric(99),
     pop |-> Method(Id(<<"a">>), Pop, <<>>),
     push |-> Method(Id(<<"a">>), Push, <<Numeric(5)>>)]
StoreProgram(in) ==
    <<Var(<<"a">>, Literal(in.n)),
      SetIndex(<<"a">>, in.i, StoredNodes[in.e]),
      Println(Method(Id(<<"a">>), LenName, <<>>))>>
StoreInputs == [fam : {"store"}, n : 1..MaxLen, i : 0..(MaxLen + 1), e : DOMAIN StoredNodes]

\* println(x op y)
ArithOperators == {<<"+">>, <<"-">>, <<"*">>, <<"/">>, <<"%">>}
ArithProgram(in) == <<Println(Bin(Numeric(in.x), in.op, Numeric(in.y)))>>
ArithInputs == [fam : {"arith"}, x : {0, 6, 12}, op : ArithOperators, y : {0, 2, 3}]

\* rec:  fun f(n) { var l = n * 10  if n > 0 { f(n - 1) }  println(n)  println(l) }  f(k)
\* two:  fun make() { var c = 0  fun inc() { c = c + 1  c }  inc }
\*       var f = make()  var g = make()  then println(f()) or println(g()), per call
Make == <<"m", "a", "k", "e">>
ActivationProgram(in) ==
    IF in.kind = "rec"
    THEN <<Fun(<<"f">>, <<<<"n">>>>,
               <<Var(<<"l">>, Bin(Id(<<"n">>), <<"*">>, Numeric(10))),
                 If(Bin(Id(<<"n">>), <<">">>, Numeric(0)),
                    <<Call(<<"f">>, <<Bin(Id(<<"n">>), <<"-">>, Numeric(1))>>)>>),
                 Println(Id(<<"n">>)),
                 Println(Id(<<"l">>))>>),
           Call(<<"f">>, <<Numeric(in.k)>>)>>
    ELSE <<Fun(Make, <<>>,
               <<Var(<<"c">>, Numeric(0)),
                 Fun(<<"i", "n", "c">>, <<>>,
                     <<Set(<<"c">>, Bin(Id(<<"c">>), <<"+">>, Numeric(1))), Id(<<"c">>)>>),
                 Id(<<"i", "n", "c">>)>>),
           Var(<<"f">>, Call(Make, <<>>)),
           Var(<<"g">>, Call(Make, <<>>))>> \o
         [j \in 1..Len(in.calls) |-> Println(Call(in.calls[j], <<>>))]
ActivationInputs ==
    [fam : {"activation"}, kind : {"rec"}, k : 0..MaxNum]
    \cup [fam : {"activation"}, kind : {"two"}, calls : [1..3 -> {<<"f">>, <<"g">>}]]

\* fun c1() { println(1)  A }  fun c2() { println(2)  B }  fun c3() { println(3)  C }
\* fun t() { if c1() { println(10)  100 } else if c2() { println(20)  200 }
\*           else if c3() { println(30)  300 } else { println(40)  400 } }
\* println(t())        with in.n of the else-if clauses and the else optional
Condition(k) == <<"c", NatToChars(k)[1]>>
Branch(k) == <<Println(Numeric(10 * k)), Numeric(100 * k)>>
BranchProgram(in) ==
    [k \in 1..3 |-> Fun(Condition(k), <<>>, <<Println(Numeric(k)), OperandNodes[in.c[k]]>>)]
    \o <<Fun(<<"t">>, <<>>,
             <<IfStatement(Call(Condition(1), <<>>), Branch(1),
                           [k \in 1..in.n |-> ElseIfClause(Call(Condition(k + 1), <<>>), Branch(k + 1))],
                           IF in.hasElse THEN Branch(4) ELSE <<>>)>>),
         Println(Call(<<"t">>, <<>>))>>
BranchInputs ==
    [fam : {"branch"}, c : (1..Len(OperandNodes)) \X {2, 4} \X {1, 3}, n : 0..2, hasElse : BOOLEAN]

(***************************************************************************)
(* Programs given as source text, which the lexer and the parser read.     *)
(*   binary   var n = 2 <newline> A-B      with A, B among 1, 2 and n      *)
(*   fib      fun fib(n) { if n <= 1 { return n } fib(n-1) + fib(n-2) }    *)
(*            println(fib(k))                                               *)
(* each with the minus written tight (a-b) or spaced (a - b).              *)
(***************************************************************************)
Operands == {<<"1">>, <<"2">>, <<"n">>}
Minus(spaced) == IF spaced THEN <<" ", "-", " ">> ELSE <<"-">>
BinarySource(in) == <<"v", "a", "r", " ", "n", " ", "=", " ", "2", "\n">> \o in.a \o Minus(in.spaced) \o in.b
FibSource(in) ==
    <<"f", "u", "n", " ", "f", "i", "b", "(", "n", ")", " ", "{", " ", "i", "f", " ", "n", " ", "<", "=", " ", "1", " ", "{", " ", "r", "e", "t", "u", "r", "n", " ", "n", " ", "}", " ", "f", "i", "b", "(", "n">> \o Minus(in.spaced) \o <<"1">>
    \o <<")", " ", "+", " ", "f", "i", "b", "(", "n">> \o Minus(in.spaced) \o <<"2">>
    \o <<")", " ", "}", " ", "p", "r", "i", "n", "t", "l", "n", "(", "f", "i", "b", "(">> \o NatToChars(in.k) \o <<")", ")">>
FibArguments == {0, 1, 2, 3, 10}
SourceInputs ==
    [fam : {"binary"}, a : Operands, b : Operands, spaced : BOOLEAN]
    \cup {in \in [fam : {"fib"}, k : FibArguments, spaced : BOOLEAN] :
            in.spaced => in.k <= 3}
\* var s = "<text>"
\* println(len(s))
\* var c = s[<i>]
\* println(len(c))
\* the text of a string literal and the bytes of the string it denotes
StringLiterals ==
    {[text |-> <<>>, bytes |-> <<>>],
     [text |-> <<"a">>, bytes |-> <<"a">>],
     [text |-> <<"a", "b">>, bytes |-> <<"a", "b">>],
     [text |-> <<"U+00E9">>, bytes |-> <<"0xC3", "0xA9">>],
     [text |-> <<"a", "U+00E9">>, bytes |-> <<"a", "0xC3", "0xA9">>]}
IntToChars(i) == IF i < 0 THEN <<"-">> \o NatToChars(0 - i) ELSE NatToChars(i)
PrintlnLen(name) ==
    <<"p", "r", "i", "n", "t", "l", "n", "(", "l", "e", "n", "(">> \o name \o <<")", ")">>
StringIndexSource(in) ==
    <<"v", "a", "r", " ", "s", " ", "=", " ", "\"">> \o in.s.text \o <<"\"", "\n">>
    \o PrintlnLen(<<"s">>) \o <<"\n">>
    \o <<"v", "a", "r", " ", "c", " ", "=", " ", "s", "[">> \o IntToChars(in.i) \o <<"]", "\n">>
    \o PrintlnLen(<<"c">>)
StringIndexInputs == [fam : {"strindex"}, s : StringLiterals, i : -1..(MaxLen + 1)]

\* Programs with a comment after the last expression of a body.
\*   fun    fun f() {            if     fun f() {             loop   fun f() {
\*            7 <comment>                 if true {                    loop i from 1 to 1 {
\*          }                               return 7 <comment>           7 <comment>
\*          println(f())                  }                            }
\*                                      }                            }
\*                                      println(f())                 println(f())
\* <comment> is nothing, "// note" on the same line, or "// note" on the next line.
CommentText == <<" ", "/", "/", " ", "n", "o", "t", "e">>
CommentAt(where) ==
    CASE where = "none" -> <<"\n">>
      [] where = "same" -> CommentText \o <<"\n">>
      [] where = "next" -> <<"\n">> \o CommentText \o <<"\n">>
PrintlnF == <<"p", "r", "i", "n", "t", "l", "n", "(", "f", "(", ")", ")">>
CommentSource(in) ==
    CASE in.kind = "fun" ->
            <<"f", "u", "n", " ", "f", "(", ")", " ", "{", "\n", "7">> \o CommentAt(in.where)
            \o <<"}", "\n">> \o PrintlnF
      [] in.kind = "if" ->
            <<"f", "u", "n", " ", "f", "(", ")", " ", "{", "\n", "i", "f", " ", "t", "r",
              "u", "e", " ", "{", "\n", "r", "e", "t", "u", "r", "n", " ", "7">>
            \o CommentAt(in.where) \o <<"}", "\n", "}", "\n">> \o PrintlnF
      [] in.kind = "loop" ->
            <<"f", "u", "n", " ", "f", "(", ")", " ", "{", "\n", "l", "o", "o", "p", " ",
              "i", " ", "f", "r", "o", "m", " ", "1", " ", "t", "o", " ", "1", " ", "{",
              "\n", "7">>
            \o CommentAt(in.where) \o <<"}", "\n", "}", "\n">> \o PrintlnF
CommentInputs ==
    [fam : {"comment"}, kind : {"fun", "if", "loop"}, where : {"none", "same", "next"}]

\* //<text>
\* println(1)
\* with the comment texts: empty, note, say "hi", it's 5 o'clock, don't, "x
CommentTexts ==
    <<<<>>,
      <<" ", "n", "o", "t", "e">>,
      <<" ", "s", "a", "y", " ", "\"", "h", "i", "\"">>,
      <<" ", "i", "t", "'", "s", " ", "5", " ", "o", "'", "c", "l", "o", "c", "k">>,
      <<" ", "d", "o", "n", "'", "t">>,
      <<" ", "\"", "x">>>>
CommentLineSource(in) ==
    <<"/", "/">> \o CommentTexts[in.text] \o <<"\n">> \o <<"p", "r", "i", "n", "t", "l", "n", "(", "1", ")">>
CommentLineInputs == [fam : {"commentline"}, text : 1..Len(CommentTexts)]

SourceFamilies == {"binary", "fib", "strindex", "comment", "commentline"}
SourceOf(in) ==
    CASE in.fam = "binary" -> BinarySource(in)
      [] in.fam = "fib" -> FibSource(in)
      [] in.fam = "strindex" -> StringIndexSource(in)
      [] in.fam = "comment" -> CommentSource(in)
      [] in.fam = "commentline" -> CommentLineSource(in)

Inputs == ConstInputs \cup ReturnInputs \cup BreakInputs \cup SentinelInputs
          \cup ClosureInputs \cup ScopeInputs \cup ImplicitInputs \cup RangeInputs
          \cup SourceInputs \cup IndexInputs \cup AliasInputs \cup PushPopInputs
          \cup JoinInputs \cup MutateInputs \cup LogicInputs \cup DeclareInputs
          \cup AssignInputs \cup BlockInputs \cup StringIndexInputs \cup CommentInputs
          \cup CommentLineInputs \cup StoreInputs \cup ArithInputs \cup ActivationInputs
          \cup BranchInputs

ProgramOf(in) ==
    CASE in.fam = "const" -> ConstProgram(in)
      [] in.fam = "return" -> ReturnProgram(in)
      [] in.fam = "break" -> BreakProgram(in)
      [] in.fam = "sentinel" -> SentinelProgram(in)
      [] in.fam = "closure" -> ClosureProgram(in)
      [] in.fam = "scope" -> ScopeProgram(in)
      [] in.fam = "implicit" -> ImplicitProgram(in)
      [] in.fam = "range" -> RangeProgram(in)
      [] in.fam \in SourceFamilies -> <<>>
      [] in.fam = "index" -> IndexProgram(in)
      [] in.fam = "alias" -> AliasProgram(in)
      [] in.fam = "pushpop" -> PushPopProgram(in)
      [] in.fam = "join" -> JoinProgram(in)
      [] in.fam = "mutate" -> MutateProgram(in)
      [] in.fam = "logic" -> LogicProgram(in)
      [] in.fam = "declare" -> DeclareProgram(in)
      [] in.fam = "assign" -> AssignProgram(in)
      [] in.fam = "block" -> BlockProgram(in)
      [] in.fam = "store" -> StoreProgram(in)
      [] in.fam = "arith" -> ArithProgram(in)
      [] in.fam = "activation" -> ActivationProgram(in)
      [] in.fam = "branch" -> BranchProgram(in)

(***************************************************************************)
(* The global scope: SetupBuiltins declares the constants and the native   *)
(* functions as constants of the root scope.  pi is 3.14159... in the      *)
(* source and truncated here, the model's Numerics being integers.         *)
(***************************************************************************)
NativeNames == {<<"a", "b", "s">>, <<"r", "o", "u", "n", "d">>, <<"m", "a", "x">>, <<"m", "i", "n">>, <<"r", "a", "n", "d", "o", "m">>, <<"r", "a", "n", "d", "I", "n", "t">>, <<"i", "n", "p", "u", "t">>, <<"p", "r", "i", "n", "t">>,
                <<"p", "r", "i", "n", "t", "l", "n">>, <<"l", "e", "n">>, <<"n", "u", "m", "b", "e", "r">>, <<"s", "t", "r", "i", "n", "g">>, <<"b", "o", "o", "l">>, <<"t", "y", "p", "e">>, <<"s", "l", "e", "e", "p">>, <<"c", "l", "e", "a", "r">>}
SetupBuiltins ==
    [parent |-> 0,
     variables |-> [name \in NativeNames \cup {<<"n", "u", "l", "l">>, <<"p", "i">>} |->
                      IF name = <<"n", "u", "l", "l">> THEN NullValue
                      ELSE IF name = <<"p", "i">> THEN NumericValue(3)
                      ELSE NativeFunctionValue(name, Nil)],
     constants |-> NativeNames \cup {<<"n", "u", "l", "l">>, <<"p", "i">>}]
GlobalScope == 1

(***************************************************************************)
(* The run of one program: ProduceAST tokenizes the source and parses the  *)
(* statements, evaluateProgram evaluates them in the global scope.  A      *)
(* program given as an AST starts at the evaluation.                       *)
(***************************************************************************)
VARIABLES
    input,          \* the description of the program being run
    phase,          \* "lex" | "parse" | "run" | "done"
    chars, line,    \* Tokenize: the characters left and the current line
    tokens,         \* Tokenize's tokens, then Parser.tokens
    program,        \* Program.Statements
    pc,             \* index of the next top-level statement
    scopes, arrays, bufs, objects, out, err, steps,
    lastEvaluated,  \* evaluateProgram's lastEvaluated
    stack,          \* the running calls of processStatementsWithImports
    visited,        \* ProcessImports' visited map: the paths marked true
    reads           \* the paths os.ReadFile has read, in order
vars == <<input, phase, chars, line, tokens, program, pc, scopes, arrays, bufs, objects,
          out, err, steps, lastEvaluated, stack, visited, reads>>
importVars == <<stack, visited, reads>>
interpreterVars == <<scopes, arrays, bufs, objects, out, steps, lastEvaluated, pc>>

State == [scopes |-> scopes, arrays |-> arrays, bufs |-> bufs, objects |-> objects,
          out |-> out, err |-> err, steps |-> steps]

Init ==
    /\ input \in Inputs
    /\ program = ProgramOf(input)
    /\ phase = IF input.fam \in SourceFamilies THEN "lex" ELSE "run"
    /\ chars = IF input.fam \in SourceFamilies THEN SourceOf(input) ELSE <<>>
    /\ line = 1
    /\ tokens = <<>>
    /\ pc = 1
    /\ scopes = <<SetupBuiltins>>
    /\ arrays = <<>>
    /\ bufs = <<>>
    /\ objects = <<>>
    /\ out = <<>>
    /\ err = ""
    /\ steps = 0
    /\ lastEvaluated = Nil
    /\ stack = <<>>
    /\ visited = {}
    /\ reads = <<>>

\* Lexer.Tokenize: one iteration of "for len(chars) > 0"
Tokenize ==
    /\ phase = "lex"
    /\ chars # <<>>
    /\ LET r == tokenizeIteration(chars, line, tokens)
       IN /\ chars' = r.chars
          /\ line' = r.line
          /\ tokens' = r.tokens
    /\ UNCHANGED <<input, phase, program, err, interpreterVars, importVars>>

\* Lexer.Tokenize: the EOF token after the loop; the parser takes the tokens
TokenizeEOF ==
    /\ phase = "lex"
    /\ chars = <<>>
    /\ tokens' = tokenizeEOF(line, tokens)
    /\ phase' = "parse"
    /\ UNCHANGED <<input, chars, line, program, err, interpreterVars, importVars>>

\* program.Statements = append(program.Statements, statement); a syntax
\* error ends the run
appendStatement(statement) ==
    /\ tokens' = statement.p.tokens
    /\ program' = Append(program, statement.n)
    /\ err' = statement.p.err
    /\ phase' = IF statement.p.err # "" THEN "done" ELSE "parse"

\* ProduceASTWithFilename: one iteration of "for p.notEOF()"
ProduceAST ==
    /\ phase = "parse"
    /\ notEOF(NewParser(tokens))
    /\ IF tokens[1].type = "NEWLINE"
       THEN /\ tokens' = Tail(tokens)
            /\ UNCHANGED <<program, err, phase>>
       ELSE appendStatement(parseStatement(NewParser(tokens)))
    /\ UNCHANGED <<input, chars, line, interpreterVars, importVars>>

\* ProduceASTWithFilename returns the program, which Evaluate receives
ProduceASTDone ==
    /\ phase = "parse"
    /\ ~notEOF(NewParser(tokens))
    /\ phase' = "run"
    /\ UNCHANGED <<input, chars, line, tokens, program, err, interpreterVars, importVars>>

\* evaluateProgram: one iteration of "for _, statement := range program.Statements"
ExecStatement ==
    /\ phase = "run"
    /\ pc <= Len(program)
    /\ LET r == Evaluate(program[pc], GlobalScope, State)
       IN /\ scopes' = r.st.scopes
          /\ arrays' = r.st.arrays
          /\ bufs' = r.st.bufs
          /\ objects' = r.st.objects
          /\ out' = r.st.out
          /\ err' = r.st.err
          /\ steps' = r.st.steps
          /\ lastEvaluated' = IF r.st.err = "" THEN r.v ELSE lastEvaluated
          /\ pc' = pc + 1
          /\ phase' = IF r.st.err # "" THEN "done" ELSE "run"
    /\ UNCHANGED <<input, chars, line, tokens, program, importVars>>

\* evaluateProgram returns lastEvaluated after the last statement
Finish ==
    /\ phase = "run"
    /\ pc > Len(program)
    /\ phase' = "done"
    /\ UNCHANGED <<input, chars, line, tokens, program, err, interpreterVars, importVars>>

Next ==
    \/ Tokenize
    \/ TokenizeEOF
    \/ ProduceAST
    \/ ProduceASTDone
    \/ ExecStatement
    \/ Finish

Spec == Init /\ [][Next]_vars

(***************************************************************************)
(* Import resolution (internal/imports/imports.go).  The files are         *)
(*   /m.gloob    the root file, given to the interpreter as m.gloob        *)
(*   /a.gloob    beside it                                                 *)
(*   /d/b.gloob  in the directory d                                        *)
(* each holding at most an import, a statement of its own and a second     *)
(* import, and m a last statement.  A file is kept as the statement list   *)
(* ProduceAST returns for its text.  The statement of m and of a holds a   *)
(* nested import (in a function body, in an if body).  An import names its *)
(* target by a path                                                        *)
(* spelled as seen from the importing file's directory; the first and the  *)
(* second import of a file spell the same target differently.              *)
(***************************************************************************)
\* deepest nesting of processStatementsWithImports calls that is followed;
\* the Go stack of a deeper recursion overflows
MaxDepth == 6

PathM == <<"/", "m", ".", "g", "l", "o", "o", "b">>
PathA == <<"/", "a", ".", "g", "l", "o", "o", "b">>
PathB == <<"/", "d", "/", "b", ".", "g", "l", "o", "o", "b">>
BasePath == <<"m", ".", "g", "l", "o", "o", "b">>

\* the path text by which a file in directory `from` ("." or "d") names target
Spelling(from, target, second) ==
    CASE from = "." /\ target = "a" ->
            IF second THEN <<".", "/", "a", ".", "g", "l", "o", "o", "b">> ELSE <<"a">>
      [] from = "." /\ target = "b" ->
            IF second THEN <<"d", "/", ".", ".", "/", "d", "/", "b", ".", "g", "l", "o", "o", "b">>
            ELSE <<"d", "/", "b">>
      [] from = "." /\ target = "m" -> IF second THEN PathM ELSE <<"m">>
      [] from = "d" /\ target = "a" -> <<".", ".", "/", "a">>
      [] from = "d" /\ target = "b" -> <<"b">>
      [] from = "d" /\ target = "m" -> <<".", ".", "/", "m", ".", "g", "l", "o", "o", "b">>
      [] target = "x" -> IF second THEN <<"x", ".", "g", "b">> ELSE <<"x">>

ImportOf(from, target, second) ==
    IF target = "none" THEN <<>> ELSE <<ImportStatement(Spelling(from, target, second))>>

OwnM == Fun(<<"f">>, <<>>, <<ImportStatement(<<"a">>), Numeric(1)>>)
OwnA == If(Boolean(TRUE), <<ImportStatement(<<"d", "/", "b">>)>>)
OwnB == Var(<<"b">>, Numeric(2))
LastM == Println(Numeric(3))

\* the file system: the statements of the file at an absolute path
Files(in) ==
    (PathM :> (ImportOf(".", in.m1, FALSE) \o <<OwnM>> \o ImportOf(".", in.m2, TRUE)
               \o <<LastM>>))
    @@ (PathA :> (ImportOf(".", in.a1, FALSE) \o <<OwnA>> \o ImportOf(".", in.a2, TRUE)))
    @@ (PathB :> (ImportOf("d", in.b1, FALSE) \o <<OwnB>>))

ImportInputs ==
    [fam : {"import"}, m1 : {"none", "a", "b", "m", "x"}, m2 : {"none", "a", "b", "m", "x"},
     a1 : {"none", "a", "b", "m"}, a2 : {"none", "b"}, b1 : {"none", "a", "b", "m"}]

\* a call of processStatementsWithImports: its statements, the index of the
\* statement its loop is at, its baseDir and its result so far
Frame(statements, baseDir) ==
    [statements |-> statements, i |-> 1, baseDir |-> baseDir, result |-> <<>>]

resolveImportPath(importPath, baseDir) ==
    LET withExtension ==
            IF ~HasSuffix(importPath, <<".", "g", "l", "o", "o", "b">>)
               /\ ~HasSuffix(importPath, <<".", "g", "b">>)
            THEN importPath \o <<".", "g", "l", "o", "o", "b">>
            ELSE importPath
    IN IF IsAbs(withExtension) THEN withExtension ELSE Join(baseDir, withExtension)

\* "if visited[absPath]"
\* (isVisited_Never: no path counts as visited)
isVisited_Never(marked, absPath) == FALSE
isVisited(marked, absPath) == absPath \in marked

\* the visited map after an import has been processed: the path stays marked
\* (afterImport_Unmark: "delete(visited, absPath)", which the source has
\* commented out)
afterImport_Unmark(marked, absPath) == marked \ {absPath}
afterImport(marked, absPath) == marked

\* "result = append(result, importedStatements...)"
\* (appendImported_First: the imported statements put before the result)
appendImported_First(result, importedStatements) == importedStatements \o result
appendImported(result, importedStatements) == result \o importedStatements

ImportInit ==
    /\ input \in ImportInputs
    /\ program = Files(input)[PathM]
    /\ phase = "imports"
    /\ chars = <<>>
    /\ line = 1
    /\ tokens = <<>>
    /\ pc = 1
    /\ scopes = <<SetupBuiltins>>
    /\ arrays = <<>>
    /\ bufs = <<>>
    /\ objects = <<>>
    /\ out = <<>>
    /\ err = ""
    /\ steps = 0
    /\ lastEvaluated = Nil
    /\ stack = <<>>
    /\ visited = {}
    /\ reads = <<>>

\* ProcessImports, up to its call of processStatementsWithImports
ProcessImports ==
    /\ phase = "imports"
    /\ visited' = {}
    /\ stack' = <<Frame(program, Dir(BasePath))>>
    /\ phase' = "resolve"
    /\ UNCHANGED <<input, chars, line, tokens, program, err, reads, interpreterVars>>

\* the import statement met by the call on top of the stack: its resolved
\* path is looked up in visited, then marked, and loadAndParseFile
\* reads the file and calls processStatementsWithImports on its statements
importFile(importPath, absPath) ==
    IF isVisited(visited, absPath)
    THEN /\ err' = "circular import detected"
         /\ phase' = "done"
         /\ UNCHANGED <<stack, visited, reads>>
    ELSE IF absPath \notin DOMAIN Files(input)
    THEN /\ err' = "failed to read file"
         /\ phase' = "done"
         /\ visited' = visited \cup {absPath}
         /\ UNCHANGED <<stack, reads>>
    ELSE IF Len(stack) >= MaxDepth
    THEN /\ err' = "GO_FATAL_stack_overflow"
         /\ phase' = "done"
         /\ visited' = visited \cup {absPath}
         /\ reads' = Append(reads, absPath)
         /\ UNCHANGED stack
    ELSE /\ visited' = visited \cup {absPath}
         /\ reads' = Append(reads, absPath)
         /\ stack' = Append(stack, Frame(Files(input)[absPath], Dir(importPath)))
         /\ UNCHANGED <<err, phase>>

\* processStatementsWithImports: an iteration of its loop at an import
ImportStatementStep ==
    /\ phase = "resolve"
    /\ stack[Len(stack)].i <= Len(stack[Len(stack)].statements)
    /\ stack[Len(stack)].statements[stack[Len(stack)].i].t = "IMPORT_STATEMENT"
    /\ \E importPath \in {resolveImportPath(
                               stack[Len(stack)].statements[stack[Len(stack)].i].path,
                               stack[Len(stack)].baseDir)} :
          \E absPath \in {filepathAbs(importPath)} : importFile(importPath, absPath)
    /\ UNCHANGED <<input, chars, line, tokens, program, interpreterVars>>

\* processStatementsWithImports: an iteration of its loop at another statement
PlainStatementStep ==
    /\ phase = "resolve"
    /\ stack[Len(stack)].i <= Len(stack[Len(stack)].statements)
    /\ stack[Len(stack)].statements[stack[Len(stack)].i].t # "IMPORT_STATEMENT"
    /\ LET top == stack[Len(stack)]
       IN stack' = [stack EXCEPT ![Len(stack)].result = Append(@, top.statements[top.i]),
                                 ![Len(stack)].i = @ + 1]
    /\ UNCHANGED <<input, phase, chars, line, tokens, program, err, visited, reads,
                   interpreterVars>>

\* processStatementsWithImports returns its result: to the importing call,
\* which appends it and goes on, or to ProcessImports, which returns the program
ReturnStatements ==
    /\ phase = "resolve"
    /\ stack[Len(stack)].i > Len(stack[Len(stack)].statements)
    /\ IF Len(stack) = 1
       THEN /\ program' = stack[1].result
            /\ phase' = "done"
            /\ stack' = <<>>
            /\ UNCHANGED visited
       ELSE LET importedStatements == stack[Len(stack)].result
                caller == stack[Len(stack) - 1]
                absPath == filepathAbs(resolveImportPath(caller.statements[caller.i].path,
                                                         caller.baseDir))
            IN /\ stack' = [SubSeq(stack, 1, Len(stack) - 1) EXCEPT
                              ![Len(stack) - 1].result = appendImported(@, importedStatements),
                              ![Len(stack) - 1].i = @ + 1]
               /\ visited' = afterImport(visited, absPath)
               /\ UNCHANGED <<program, phase>>
    /\ UNCHANGED <<input, chars, line, tokens, err, reads, interpreterVars>>

ImportNext ==
    \/ ProcessImports
    \/ ImportStatementStep
    \/ PlainStatementStep
    \/ ReturnStatements

\* the resolver is one sequential call: it goes on as long as it has a step
ImportSpec == ImportInit /\ [][ImportNext]_vars /\ WF_vars(ImportNext)

(***************************************************************************)
(* Properties.  Printed is the list of the values printed so far, each     *)
(* println of the programs above printing one value.                       *)
(***************************************************************************)
Printed == [i \in 1..Len(out) |-> out[i][1]]
Numbers(ns) == [i \in 1..Len(ns) |-> NumericValue(ns[i])]
Constant_k == scopes[GlobalScope].variables[<<"k">>]

\* C1: after const k = v, every later attempt to give k a new value (an
\* assignment in the scope or in a nested scope, a range or a for-each loop
\* naming k as its loop variable) raises an error and the value bound to k
\* never changes; k stays readable from every nested scope.
C1_ConstantKeepsItsValue ==
    (input.fam = "const" /\ pc > 1) =>
        /\ err = "" => Constant_k = NumericValue(input.v)
        /\ (phase = "done"
               /\ input.how \in {"assign", "assignNested", "range", "rangeEmpty", "foreach"})
              => err = "ConstantCannotBeAssigned"
        /\ (phase = "done" /\ input.how \in {"read", "readDeep"})
              => err = "" /\ Printed = Numbers(<<input.v, input.v>>)

\* C2: a return executed anywhere in a function body (also in an if body
\* with further statements after it, also in any loop body) ends the call:
\* no further statement of the call runs and the call yields the returned
\* value, Null for a bare return.
C2_ReturnEndsTheCall ==
    input.fam = "return" =>
        /\ \A i \in 1..Len(out) : Printed[i] \notin {NumericValue(98), NumericValue(99)}
        /\ phase = "done" =>
              /\ err = ""
              /\ Printed = <<NumericValue(1),
                             IF input.where = "bare" THEN NullValue ELSE NumericValue(7)>>

\* C3: a break executed in a loop body, directly or nested in an if body
\* with further statements after it, ends the iteration and the innermost
\* loop, and an outer loop goes on with its next iteration.
C3_BreakEndsTheLoop ==
    (input.fam = "break" /\ phase = "done") =>
        /\ err = ""
        /\ Printed = Numbers(CASE input.where = "direct" -> <<1, 50>>
                               [] input.where \in {"ifLast", "ifMore", "ifIf"} -> <<1, 11, 2, 50>>
                               [] input.where = "nested" -> <<1, 21, 1, 22, 50>>)

\* C4: no variable, array element, object property, function argument or
\* call result ever holds a Break or Return sentinel, and a break evaluated
\* in a called function never ends a loop of the caller.
Sentinel(value) == value.t \in {"BREAK_EXPRESSION", "RETURN_VALUE"}
C4_SentinelsNeverObservable ==
    /\ \A i \in 1..Len(scopes) : \A name \in DOMAIN scopes[i].variables :
          ~Sentinel(scopes[i].variables[name])
    /\ \A a \in 1..Len(arrays) : \A j \in 1..arrays[a].len : ~Sentinel(Elements(State, a)[j])
    /\ \A o \in 1..Len(objects) : \A key \in DOMAIN objects[o] : ~Sentinel(objects[o][key])
    /\ (input.fam = "sentinel" /\ input.where = "calleeBreak" /\ phase = "done")
          => err = "" /\ Printed = Numbers(<<1, 11, 2, 12, 3, 13, 50>>)

\* C5: the function returned by make() keeps reading and writing the
\* variable c of that call's scope: the n-th call of f() returns n.
C5_ClosureCounts ==
    input.fam = "closure" =>
        /\ err = ""
        /\ \A j \in 1..Len(out) : Printed[j] = NumericValue(j)
        /\ phase = "done" => Len(out) = input.n
C5_Witness ==
    /\ input.fam = "closure" /\ input.n = MaxCalls /\ phase = "done"
    /\ Printed[MaxCalls] = NumericValue(MaxCalls)

\* C6: the scope of a call is a child of the scope that declared the
\* function, never of the caller's scope: a name declared only in the
\* caller's function scope is not found from the callee, and when both the
\* declaration scope and the caller define x, the callee reads and assigns
\* the x of the declaration scope.
C6_CallScopeIsChildOfDeclarationScope ==
    input.fam = "scope" =>
        /\ \A i \in 2..Len(scopes) : scopes[i].parent = GlobalScope
        /\ (phase = "done" /\ input.how = "callerOnly")
              => err = "VariableNotFound" /\ out = <<>>
        /\ (phase = "done" /\ input.how = "both")
              => /\ err = ""
                 /\ Printed = Numbers(<<input.v + 10, input.w, input.v + 10>>)
C6_Witness ==
    /\ input.fam = "scope" /\ input.how = "both" /\ input.v = 1 /\ input.w = 2
    /\ phase = "done" /\ Len(scopes) = 3
    /\ Printed = Numbers(<<11, 2, 11>>)

\* C7: a call that executes no return yields the value of the last
\* expression of the body, evaluated with the parameters bound to the
\* arguments in order; an empty body yields Null.
LastExprValue(e, a, b) ==
    CASE e = 0 -> NullValue
      [] e = 1 -> NumericValue(a)
      [] e = 2 -> NumericValue(b)
      [] e = 3 -> NumericValue(a - b)
      [] e = 4 -> NumericValue(a * b)
      [] e = 5 -> NumericValue(a + a + b)
      [] e = 6 -> BooleanValue(a < b)
OperandNode(o) ==
    CASE o = <<"1">> -> Numeric(1) [] o = <<"2">> -> Numeric(2) [] o = <<"n">> -> Identifier(o)
OperandValue(o) == CASE o = <<"1">> -> 1 [] o = <<"2">> -> 2 [] o = <<"n">> -> 2
RECURSIVE FibNumber(_)
FibNumber(k) == IF k <= 1 THEN k ELSE FibNumber(k - 1) + FibNumber(k - 2)
C8_TightMinusIsSubtraction ==
    /\ (input.fam = "binary" /\ phase \in {"run", "done"}) =>
          program = <<VariableDeclaration(FALSE, <<"n">>, Numeric(2)),
                      BinaryExpression(OperandNode(input.a), <<"-">>, OperandNode(input.b))>>
    /\ (input.fam = "binary" /\ phase = "done") =>
          /\ err = ""
          /\ lastEvaluated = NumericValue(OperandValue(input.a) - OperandValue(input.b))
    /\ (input.fam = "fib" /\ phase = "done") =>
          /\ err = ""
          /\ Printed = <<NumericValue(FibNumber(input.k))>>

\* C9: a range loop with a nonzero increment d pointing from `from` toward
\* `to` runs its body with the loop variable equal to from, from+d, from+2d,
\* ... in that order, for exactly the values that do not pass `to` (`to`
\* included when it is hit), and then stops.
RangeStep == IF input.hasInc THEN input.inc ELSE 1
RangeTowardTo ==
    \/ RangeStep > 0 /\ input.from <= input.to
    \/ RangeStep < 0 /\ input.from >= input.to
RangeVisits ==
    LET distance == IF input.to >= input.from THEN input.to - input.from
                    ELSE input.from - input.to
        size == IF RangeStep > 0 THEN RangeStep ELSE 0 - RangeStep
    IN [k \in 1..((distance \div size) + 1) |-> input.from + (k - 1) * RangeStep]
C9_RangeLoopVisits ==
    (input.fam = "range" /\ RangeTowardTo /\ pc > 1) =>
        /\ err = ""
        /\ Printed = Numbers(IF pc = 2 THEN RangeVisits ELSE Append(RangeVisits, 100))
C9_Witness ==
    /\ input.fam = "range" /\ input.hasInc
    /\ input.from = MaxNum /\ input.to = MaxNum - 2 * MaxInc /\ input.inc = 0 - MaxInc
    /\ phase = "done"
    /\ Printed = Numbers(<<MaxNum, MaxNum - MaxInc, MaxNum - 2 * MaxInc, 100>>)

\* C10: a range loop whose from and to are the same number runs its body
\* exactly once and then terminates, whatever the increment (absent,
\* positive, negative or zero), the body not breaking.
C10_EqualBoundsRunOnce ==
    (input.fam = "range" /\ input.from = input.to) =>
        /\ Len(out) <= 2
        /\ pc > 1 => err = "" /\ Printed[1] = NumericValue(input.from)
        /\ phase = "done" => Printed = Numbers(<<input.from, 100>>)

(***************************************************************************)
(* Import resolution: the import graph of the files, told from the         *)
(* description of the file set (and not from the paths).                   *)
(***************************************************************************)
\* the top-level imports of the files, in the order of the file texts
ImportEdges(in) ==
    <<[from |-> "m", to |-> in.m1], [from |-> "m", to |-> in.m2],
      [from |-> "a", to |-> in.a1], [from |-> "a", to |-> in.a2],
      [from |-> "b", to |-> in.b1]>>
Imported(in, f) ==
    {ImportEdges(in)[k].to : k \in {j \in 1..5 : ImportEdges(in)[j].from = f}} \ {"none"}
RECURSIVE ReachableFrom(_, _)
ReachableFrom(in, fs) ==
    LET more == fs \cup UNION {Imported(in, f) : f \in fs}
    IN IF more = fs THEN fs ELSE ReachableFrom(in, more)
ReachableFiles(in) == ReachableFrom(in, {"m"})
HasCycle(in) == \E f \in ReachableFiles(in) : f \in ReachableFrom(in, Imported(in, f))
AllImportsExist(in) == "x" \notin ReachableFiles(in)
\* the import statements of reachable files that name the file t
ImportsOf(in, t) ==
    {k \in 1..5 : ImportEdges(in)[k].from \in ReachableFiles(in) /\ ImportEdges(in)[k].to = t}
OwnStatement(f) == CASE f = "m" -> OwnM [] f = "a" -> OwnA [] f = "b" -> OwnB
PathOf(f) == CASE f = "m" -> PathM [] f = "a" -> PathA [] f = "b" -> PathB
Occurrences(seq, x) == Cardinality({i \in 1..Len(seq) : seq[i] = x})

\* C11: for every set of files whose imports all name existing files, the
\* resolution terminates, and when the import graph reachable from the root
\* has a cycle (through the root, a file importing itself, or among imported
\* files) it ends with the circular-import error and not with a program.
C11_ImportResolutionTerminates ==
    /\ <>(phase = "done")
    /\ []((phase = "done" /\ AllImportsExist(input) /\ HasCycle(input))
             => err = "circular import detected")
C11_Witness ==
    /\ phase = "done" /\ input.m1 = "a" /\ input.a1 = "none" /\ input.a2 = "b"
    /\ input.b1 = "m" /\ input.m2 = "none"
    /\ reads = <<PathA, PathB, PathM>>
    /\ err = "circular import detected"

\* C12: when two import statements of the reachable files name the same
\* file, also on disjoint branches of an import graph without a cycle, the
\* resolution ends with the circular-import error; a successful resolution
\* reads every file at most once and holds every file's statement at most once.
C12_NoFileImportedTwice ==
    phase = "done" =>
        /\ (AllImportsExist(input) /\ \E t \in {"m", "a", "b"} : Cardinality(ImportsOf(input, t)) > 1)
              => err = "circular import detected"
        /\ err = "" =>
              \A f \in {"m", "a", "b"} :
                  /\ Occurrences(reads, PathOf(f)) <= 1
                  /\ Occurrences(program, OwnStatement(f)) <= 1
C12_Witness ==
    /\ phase = "done" /\ input.m1 = "a" /\ input.m2 = "b" /\ input.a1 = "none"
    /\ input.a2 = "b" /\ input.b1 = "none"
    /\ ~HasCycle(input)
    /\ reads = <<PathA, PathB>>
    /\ err = "circular import detected"

\* C13: a successful resolution returns the root's statements in their
\* order with every top-level import replaced, where it stood, by the
\* resolved statements of the imported file: no top-level import is left,
\* no other statement is dropped, duplicated or moved, and the imports
\* nested in a function body or an if body stay as they were.
RECURSIVE Expansion(_, _)
Expanded(in, t) == IF t = "none" THEN <<>> ELSE Expansion(in, t)
Expansion(in, f) ==
    CASE f = "m" -> Expanded(in, in.m1) \o <<OwnM>> \o Expanded(in, in.m2) \o <<LastM>>
      [] f = "a" -> Expanded(in, in.a1) \o <<OwnA>> \o Expanded(in, in.a2)
      [] f = "b" -> Expanded(in, in.b1) \o <<OwnB>>
C13_ImportsReplacedInPlace ==
    (phase = "done" /\ err = "") =>
        /\ program = Expansion(input, "m")
        /\ \A i \in 1..Len(program) : program[i].t # "IMPORT_STATEMENT"
        /\ Occurrences(program, OwnM) = 1 /\ Occurrences(program, LastM) = 1
        /\ OwnM.body[1] = ImportStatement(<<"a">>)
C13_Witness ==
    /\ phase = "done" /\ err = ""
    /\ input.m1 = "a" /\ input.a1 = "none" /\ input.a2 = "none" /\ input.m2 = "b"
    /\ program = <<OwnA, OwnM, OwnB, LastM>>
    /\ program[1].body = <<ImportStatement(<<"d", "/", "b">>)>>

Array_a == scopes[GlobalScope].variables[<<"a">>]
InBounds(i, n) == 1 <= i /\ i <= n

\* C14: array indexing is 1-based with strict bounds: on an array of length
\* n, reading a[i] with 1 <= i <= n gives the i-th element, and every other
\* integer i (0, negative, n + 1) is the fatal out-of-bounds error; the write
\* a[i] = v obeys the same bounds and changes position i only.
C14_ArrayIndexOneBased ==
    (input.fam = "index" /\ pc > 2) =>
        /\ arrays[Array_a.ref].len = input.n
        /\ IF InBounds(input.i, input.n)
           THEN /\ err = ""
                /\ IF input.write
                   THEN /\ Elements(State, Array_a.ref) =
                             [k \in 1..input.n |->
                                IF k = input.i THEN NumericValue(99) ELSE NumericValue(10 + k)]
                        /\ phase = "done" => Printed = <<NumericValue(input.n)>>
                   ELSE /\ Elements(State, Array_a.ref) = LiteralValues(input.n)
                        /\ Printed[1] = NumericValue(10 + input.i)
                        /\ phase = "done" =>
                             Printed = <<NumericValue(10 + input.i), NumericValue(input.n)>>
           ELSE /\ err = "ArrayIndexOutOfBounds"
                /\ phase = "done"
                /\ out = <<>>
                /\ Elements(State, Array_a.ref) = LiteralValues(input.n)
C14_Witness ==
    /\ input.fam = "index" /\ phase = "done" /\ err = ""
    /\ input.n = MaxLen /\ input.i = MaxLen /\ input.write
    /\ Elements(State, Array_a.ref) =
         <<NumericValue(11), NumericValue(12), NumericValue(99)>>

Array_b == scopes[GlobalScope].variables[<<"b">>]
\* what a mutation of the alias programs does to a sequence of elements
Mutated(s, op) ==
    CASE op = 1 -> Append(s, NumericValue(7))
      [] op = 2 -> SubSeq(s, 1, Len(s) - 1)
      [] op = 3 -> Tail(s)
      [] op = 4 -> <<s[1], NumericValue(8)>> \o Tail(s)
      [] op = 5 -> [k \in 1..Len(s) |-> s[Len(s) + 1 - k]]
      [] op = 6 -> <<NumericValue(9)>> \o Tail(s)
Written(properties, op) ==
    CASE op = 1 -> (<<"p">> :> NumericValue(2)) @@ properties
      [] op = 2 -> (<<"r">> :> NumericValue(3)) @@ properties
\* the container of the alias programs after their first k mutations
AliasExpected(in, k) ==
    IF in.kind = "array"
    THEN LET s0 == LiteralValues(2)
             s1 == IF k >= 1 THEN Mutated(s0, in.op1) ELSE s0
         IN IF k >= 2 THEN Mutated(s1, in.op2) ELSE s1
    ELSE LET p0 == (<<"p">> :> NumericValue(1))
             p1 == IF k >= 1 THEN Written(p0, in.op1) ELSE p0
         IN IF k >= 2 THEN Written(p1, in.op2) ELSE p1
Contents(value) ==
    IF value.t = "ARRAY" THEN Elements(State, value.ref) ELSE objects[value.ref]

\* C15: arrays and objects have reference semantics: after var b = a the two
\* names denote one container, and after any sequence of mutations made
\* through either name (push, pop, remove, insert, reverse, index write,
\* property write) both names show the same, mutated, contents.
C15_ReferenceSemantics ==
    (input.fam = "alias" /\ pc > 2) =>
        /\ err = ""
        /\ Array_a = Array_b
        /\ Contents(Array_a) = AliasExpected(input, pc - 3)
        /\ Contents(Array_b) = AliasExpected(input, pc - 3)
C15_Witness ==
    /\ input.fam = "alias" /\ input.kind = "array" /\ phase = "done" /\ err = ""
    /\ input.op1 = 1 /\ input.via1 = <<"b">> /\ input.op2 = 5 /\ input.via2 = <<"a">>
    /\ Contents(Array_a) = <<NumericValue(7), NumericValue(12), NumericValue(11)>>
    /\ Contents(Array_b) = <<NumericValue(7), NumericValue(12), NumericValue(11)>>
    /\ arrays[Array_a.ref].buf # 1

Value_r == scopes[GlobalScope].variables[<<"r">>]

\* C16: for every array and every value v, push(v) immediately followed by
\* pop() on the same array returns v and leaves the array with exactly its
\* original element sequence and length.
C16_PushThenPop ==
    (input.fam = "pushpop" /\ pc > 1) =>
        /\ err = ""
        /\ pc = 3 =>
             Elements(State, Array_a.ref) = Append(LiteralValues(input.n), PushedValues[input.v])
        /\ phase = "done" =>
             /\ Value_r = PushedValues[input.v]
             /\ Elements(State, Array_a.ref) = LiteralValues(input.n)
             /\ arrays[Array_a.ref].len = input.n
C16_Witness ==
    /\ input.fam = "pushpop" /\ phase = "done" /\ err = ""
    /\ input.n = 2 /\ input.v = 2
    /\ Value_r = StringValue(<<"s">>)
    /\ Elements(State, Array_a.ref) = <<NumericValue(11), NumericValue(12)>>

Contains(s, substr) == StringsIndex(s, substr) >= 0

\* C17: for every array of strings arr, the empty array included, and every
\* separator s that no element of arr contains, arr.join(s).split(s) has the
\* same length and the same elements in the same order as arr.
C17_JoinSplitRoundTrip ==
    (/\ input.fam = "join" /\ phase = "done"
     /\ \A k \in 1..Len(input.arr) : ~Contains(input.arr[k], input.s)) =>
        /\ err = ""
        /\ arrays[Value_r.ref].len = Len(input.arr)
        /\ Elements(State, Value_r.ref) = [k \in 1..Len(input.arr) |-> StringValue(input.arr[k])]

\* the errors of the model that stand for a fault of the host (a Go panic or
\* a fatal error of the Go runtime), as opposed to a diagnostic of the interpreter
HostFaults ==
    {"GO_PANIC_index_out_of_range", "GO_PANIC_integer_divide_by_zero",
     "GO_PANIC_negative_Repeat_count", "GO_PANIC_ParseFloat", "GO_FATAL_stack_overflow"}

\* C18: a for-each loop whose body pushes to, pops from, removes from or
\* inserts into the array being iterated never performs an out-of-range
\* access or another host-level crash, and it terminates: it makes at most as
\* many iterations as the array had elements when the loop started.
C18_ForEachSurvivesMutation ==
    input.fam = "mutate" =>
        /\ err \notin HostFaults
        /\ err # "STEP_LIMIT"
        /\ Len(out) <= input.n + (IF pc > 3 THEN 1 ELSE 0)
        /\ err \in {"", "CannotPopFromEmptyArray", "ArrayIndexOutOfBounds"}
C18_Witness ==
    /\ input.fam = "mutate" /\ phase = "done" /\ err = ""
    /\ input.n = MaxLen /\ input.body = 9
    /\ Printed = <<NumericValue(11), NumericValue(11), NumericValue(11), NumericValue(MaxLen)>>
    /\ Elements(State, Array_a.ref) = <<NumericValue(0), NumericValue(0), NumericValue(0)>>
    /\ arrays[Array_a.ref].buf = 1

\* the truthiness of the operands of the logic programs combined by the operator
Combined(in) ==
    IF in.op = <<"&", "&">> THEN OperandTruth[in.a] /\ OperandTruth[in.b]
    ELSE OperandTruth[in.a] \/ OperandTruth[in.b]

\* C19: && and || never short-circuit: in a && b and a || b the left operand
\* is evaluated first and the right operand always afterwards, so the side
\* effects of b occur whatever the truthiness of a, and the result is the
\* Boolean combination of the truthiness of the two operands.
C19_NoShortCircuit ==
    (input.fam = "logic" /\ pc > 3) =>
        /\ err = ""
        /\ Len(out) >= 2
        /\ Printed[1] = NumericValue(1)
        /\ Printed[2] = NumericValue(2)
        /\ Value_r = BooleanValue(Combined(input))
        /\ phase = "done" =>
             Printed = <<NumericValue(1), NumericValue(2), BooleanValue(Combined(input))>>
C19_Witness ==
    /\ input.fam = "logic" /\ phase = "done" /\ err = ""
    /\ input.op = <<"&", "&">> /\ input.a = 3 /\ input.b = 6
    /\ Printed = <<NumericValue(1), NumericValue(2), BooleanValue(FALSE)>>

Inner_x == IF input.assign THEN NumericValue(3) ELSE NumericValue(2)

\* C20: Scope.Declare(name, value, isConstant) fails when name already exists
\* in that same scope and then leaves the value and the constness of name
\* unchanged; when name exists only in an ancestor scope, even as a constant,
\* Declare succeeds, shadows it, and leaves the ancestor's binding and
\* constness unchanged.
C20_DeclareSameScopeOnly ==
    (input.fam = "declare" /\ pc > 1) =>
        /\ scopes[GlobalScope].variables[<<"x">>] = NumericValue(1)
        /\ <<"x">> \in scopes[GlobalScope].constants <=> input.c1
        /\ (input.how = "same" /\ phase = "done") => err = "VariableAlreadyDeclared"
        /\ input.how = "shadow" =>
             /\ err = ""
             /\ phase = "done" =>
                  /\ Printed = <<Inner_x, NumericValue(1)>>
                  /\ Len(scopes) = 2
                  /\ scopes[2].parent = GlobalScope
                  /\ scopes[2].variables[<<"x">>] = Inner_x
                  /\ <<"x">> \in scopes[2].constants <=> input.c2
C20_Witness ==
    /\ input.fam = "declare" /\ input.how = "shadow" /\ phase = "done" /\ err = ""
    /\ input.c1 /\ ~input.c2 /\ input.assign
    /\ Printed = <<NumericValue(3), NumericValue(1)>>
    /\ <<"x">> \in scopes[GlobalScope].constants
    /\ <<"x">> \notin scopes[2].constants

\* the scopes of the assign programs that declare x, and the innermost of them
DeclaringScopes(in) == {k \in 1..3 : in.d[k] # "none"}
NearestDeclaring(in) == CHOOSE k \in DeclaringScopes(in) : \A j \in DeclaringScopes(in) : j <= k
\* the names a scope of the assign programs holds besides x
OwnNames(k) ==
    CASE k = 1 -> DOMAIN SetupBuiltins.variables \cup {<<"y">>, <<"f">>}
      [] k = 2 -> {<<"y">>, <<"g">>}
      [] k = 3 -> {<<"w">>}

\* C21: Scope.Assign(name, value) changes exactly one binding, the one of
\* name in the nearest enclosing scope that defines name; no other name and no
\* other scope changes.  When no scope on the parent chain defines name it
\* fails with variable-not-found without creating a binding, and when name is
\* constant in its defining scope it fails without changing the value.
C21_AssignNearestScope ==
    (input.fam = "assign" /\ phase = "done") =>
        /\ Len(scopes) = 3
        /\ \A k \in 1..3 :
             /\ DOMAIN scopes[k].variables =
                  OwnNames(k) \cup (IF input.d[k] # "none" THEN {<<"x">>} ELSE {})
             /\ <<"x">> \in scopes[k].constants <=> input.d[k] = "const"
             /\ \A name \in OwnNames(k) \cap DOMAIN SetupBuiltins.variables :
                  scopes[k].variables[name] = SetupBuiltins.variables[name]
        /\ scopes[1].variables[<<"y">>] = NumericValue(5)
        /\ scopes[2].variables[<<"y">>] = NumericValue(6)
        /\ scopes[3].variables[<<"w">>] = NumericValue(7)
        /\ IF DeclaringScopes(input) = {} THEN err = "VariableNotFound"
           ELSE IF input.d[NearestDeclaring(input)] = "const"
           THEN /\ err = "ConstantCannotBeAssigned"
                /\ \A k \in DeclaringScopes(input) : scopes[k].variables[<<"x">>] = NumericValue(k)
           ELSE /\ err = ""
                /\ \A k \in DeclaringScopes(input) :
                     scopes[k].variables[<<"x">>] =
                        IF k = NearestDeclaring(input) THEN NumericValue(9) ELSE NumericValue(k)
C21_Witness ==
    /\ input.fam = "assign" /\ phase = "done" /\ err = ""
    /\ input.d = <<"const", "var", "none">>
    /\ scopes[1].variables[<<"x">>] = NumericValue(1)
    /\ scopes[2].variables[<<"x">>] = NumericValue(9)
    /\ <<"x">> \notin DOMAIN scopes[3].variables

\* the scope the construct of a block program stands in
Enclosing(in) == IF in.inFun THEN 2 ELSE GlobalScope
RunsTwice(in) == in.kind \in {"range", "while", "foreach", "infinite"} /\ in.n = 2

\* C22: if and loop bodies introduce no scope of their own: a var declared in
\* such a body is declared in the enclosing scope, so it stays readable after
\* the construct ends, and executing the same declaration again in the same
\* scope (the second iteration of a loop body) is a re-declaration error.
C22_BodiesShareEnclosingScope ==
    (input.fam = "block" /\ phase = "done") =>
        /\ Len(scopes) = Enclosing(input)
        /\ <<"v">> \in DOMAIN scopes[Enclosing(input)].variables
        /\ scopes[Enclosing(input)].variables[<<"v">>] = NumericValue(1)
        /\ input.inFun => <<"v">> \notin DOMAIN scopes[GlobalScope].variables
        /\ IF RunsTwice(input)
           THEN err = "VariableAlreadyDeclared" /\ out = <<>>
           ELSE err = "" /\ Printed = <<NumericValue(1)>>
C22_Witness ==
    /\ input.fam = "block" /\ phase = "done"
    /\ input.kind = "foreach" /\ input.n = 2 /\ input.inFun
    /\ err = "VariableAlreadyDeclared"
    /\ scopes[2].variables[<<"i">>] = NumericValue(2)
    /\ scopes[2].variables[<<"v">>] = NumericValue(1)

Value_c == scopes[GlobalScope].variables[<<"c">>]

\* C23: string indexing is 1-based over bytes: for a string S of byte length
\* n, len(S) is n, S[i] for 1 <= i <= n is a string of length exactly one
\* holding the i-th byte, and S[i] for any other integer i is a fatal
\* out-of-bounds error.
C23_StringIndexOneByte ==
    (input.fam = "strindex" /\ phase = "done") =>
        /\ Len(out) >= 1
        /\ Printed[1] = NumericValue(Len(input.s.bytes))
        /\ IF InBounds(input.i, Len(input.s.bytes))
           THEN /\ err = ""
                /\ Value_c = StringValue(<<input.s.bytes[input.i]>>)
                /\ Printed = <<NumericValue(Len(input.s.bytes)), NumericValue(1)>>
           ELSE /\ err = "StringIndexOutOfBounds"
                /\ Len(out) = 1

Distance(a, b) == IF a >= b THEN a - b ELSE b - a

\* C24: a range loop with numeric from and to, with no explicit increment
\* (default +1) or with any nonzero increment, and with a body that neither
\* breaks nor fails, always terminates, for every pair of bounds, from
\* greater than to included: the step limit is never reached and the body
\* runs at most |to - from| + 1 times.
C24_RangeLoopTerminates ==
    (input.fam = "range" /\ (input.hasInc => input.inc # 0)) =>
        /\ err # "STEP_LIMIT"
        /\ Len(out) <= Distance(input.from, input.to) + 2
        /\ phase = "done" => err = "" /\ Printed[Len(out)] = NumericValue(100)

\* C25: a // comment is a no-op: a comment placed after the last expression
\* of a function body, an if body or a loop body, on the same line or on a
\* following line, does not change the value the body yields: the function
\* still returns the value of the expression, or the returned value.
C25_CommentIsNoOp ==
    (input.fam = "comment" /\ phase = "done") =>
        /\ err = ""
        /\ Printed = <<NumericValue(7)>>

\* the tokens of the comment line programs from the end of the first line on
LaterTokens ==
    <<CaptureToken(<<"\n">>, "NEWLINE", 1),
      CaptureToken(<<"p", "r", "i", "n", "t", "l", "n">>, "IDENTIFIER", 2),
      CaptureToken(<<"(">>, "OPEN_PARENTHESES", 2),
      CaptureToken(<<"1">>, "NUMBER", 2),
      CaptureToken(<<")">>, "CLOSE_PARENTHESES", 2),
      CaptureToken(<<"E", "O", "F">>, "EOF", 2)>>

\* C26: the text of a comment ends at the end of its line: whatever
\* characters follow // up to the next newline, quote characters included,
\* the tokens and the statements produced for all later lines are the same as
\* if the comment text were empty.
C26_CommentEndsAtNewline ==
    input.fam = "commentline" =>
        /\ (phase = "parse" /\ program = <<>>) =>
             /\ Len(tokens) >= Len(LaterTokens)
             /\ SubSeq(tokens, Len(tokens) - Len(LaterTokens) + 1, Len(tokens)) = LaterTokens
        /\ phase \in {"run", "done"} => program = <<Null, Println(Numeric(1))>>
        /\ phase = "done" => err = "" /\ Printed = <<NumericValue(1)>>

\* C27: an indexed assignment a[i] = e either raises the out-of-bounds error
\* or stores the value of e at a position that lies within the bounds of a at
\* the moment of the write, also when evaluating e itself changes the length
\* of a (a[n] = a.pop() on an array of length n); it never writes outside the
\* array and never crashes the host.
C27_IndexedStoreInBounds ==
    input.fam = "store" =>
        /\ err \notin HostFaults
        /\ err \in {"", "ArrayIndexOutOfBounds"}
        /\ (pc > 2 /\ err = "") =>
             /\ InBounds(input.i, arrays[Array_a.ref].len)
             /\ LET stored == Elements(State, Array_a.ref)[input.i]
                IN CASE input.e = "lit" -> stored = NumericValue(99)
                     [] input.e = "pop" -> stored = NumericValue(10 + input.n)
                     [] input.e = "push" -> stored = Array_a

\* C28: x / y on two numerics with y equal to 0, and x % y with y truncating
\* to 0, end with the interpreter's division-by-zero runtime error; no
\* arithmetic on two numerics ends in an unreported host-level fault.
C28_DivisionByZeroReported ==
    (input.fam = "arith" /\ phase = "done") =>
        /\ err \notin HostFaults
        /\ IF input.y = 0 /\ input.op \in {<<"/">>, <<"%">>}
           THEN err = "DivisionByZero" /\ Printed = <<>>
           ELSE err = "" /\ Len(Printed) = 1 /\ Printed[1].t = "NUMERIC"

\* what the rec program prints for the argument k: n and l of every
\* activation, the innermost first
RECURSIVE Unwound(_, _)
Unwound(n, k) ==
    IF n > k THEN <<>> ELSE <<NumericValue(n), NumericValue(n * 10)>> \o Unwound(n + 1, k)
\* how many of the first j calls of the two program went to the closure named
CallsOf(name, j) == Cardinality({i \in 1..j : input.calls[i] = name})

\* C29: every call of a user function creates a new scope for its parameters
\* and local declarations: a recursive call never changes the parameter or
\* local bindings of the activation of its caller, and two closures obtained
\* from two separate calls of the same factory function keep independent
\* captured variables.
C29_FreshScopePerCall ==
    input.fam = "activation" =>
        /\ err = ""
        /\ (input.kind = "rec" /\ phase = "done") => Printed = Unwound(0, input.k)
        /\ (input.kind = "two" /\ pc > 3) =>
             /\ Len(out) = pc - 4
             /\ \A j \in 1..Len(out) : Printed[j] = NumericValue(CallsOf(input.calls[j], j))
             /\ scopes[GlobalScope].variables[<<"f">>].scope
                    # scopes[GlobalScope].variables[<<"g">>].scope
C29_Witness ==
    /\ input.fam = "activation" /\ input.kind = "two" /\ phase = "done" /\ err = ""
    /\ input.calls = <<<<"f">>, <<"g">>, <<"f">>>>
    /\ Printed = <<NumericValue(1), NumericValue(1), NumericValue(2)>>

\* the conditions of the branch programs that are evaluated: those up to the
\* first truthy one, and the branch taken: the one of that condition, the
\* else (4) when every condition is falsy and there is an else, or none (0)
FirstTruthy(in) ==
    LET truthy == {k \in 1..(in.n + 1) : OperandTruth[in.c[k]]}
    IN IF truthy = {} THEN 0 ELSE CHOOSE k \in truthy : \A j \in truthy : k <= j
Evaluated(in) == IF FirstTruthy(in) = 0 THEN in.n + 1 ELSE FirstTruthy(in)
Taken(in) == IF FirstTruthy(in) # 0 THEN FirstTruthy(in) ELSE IF in.hasElse THEN 4 ELSE 0

\* C30: an if statement runs at most one branch: its conditions are evaluated
\* in source order only until the first truthy one, the conditions of later
\* else-if clauses are not evaluated, the else body runs only when every
\* condition is falsy, and when no branch runs the statement yields Null and
\* changes no state beyond the side effects of the evaluated conditions.
C30_IfRunsAtMostOneBranch ==
    (input.fam = "branch" /\ phase = "done") =>
        /\ err = ""
        /\ Printed = [k \in 1..Evaluated(input) |-> NumericValue(k)]
                     \o (IF Taken(input) = 0 THEN <<NullValue>>
                         ELSE <<NumericValue(10 * Taken(input)), NumericValue(100 * Taken(input))>>)
        /\ DOMAIN scopes[GlobalScope].variables \cap {Condition(1), Condition(2), Condition(3), <<"t">>}
               = {Condition(1), Condition(2), Condition(3), <<"t">>}
        /\ \A k \in (GlobalScope + 1)..Len(scopes) : scopes[k].variables = EmptyMap
C30_Witness ==
    /\ input.fam = "branch" /\ phase = "done" /\ err = ""
    /\ input.c = <<3, 4, 1>> /\ input.n = 2 /\ input.hasElse
    /\ Printed = <<NumericValue(1), NumericValue(2), NumericValue(20), NumericValue(200)>>

====
